---- MODULE Spec2Model ----
(***************************************************************************)
(* Write path of the multi-tenant comment service: the Redlock lock        *)
(* manager, the like/unlike transactions, and the comment tree             *)
(* (create / soft delete), modelled from the Go sketches and the           *)
(* PostgreSQL migrations of the repository.                                *)
(*                                                                         *)
(* The primary store is modelled as a row-locking store: a statement sees  *)
(* the rows committed so far plus the rows of its own transaction, a       *)
(* writer of a row waits while another open transaction has written that   *)
(* row, and a transaction's writes become visible together at commit.      *)
(* A SERIALIZABLE transaction that updates a row which a transaction       *)
(* committed after its snapshot has written fails to serialize.            *)
(* Redis keys with a TTL can disappear at any moment after they were set   *)
(* (time itself is not modelled).                                          *)
(***************************************************************************)
EXTENDS Integers, Sequences, FiniteSets, TLC

(***************************************************************************)
(* Bounds of the model and constants of the program.                       *)
(***************************************************************************)
NumProcs == 2           \* concurrent callers (goroutines / server instances)
MaxCalls == 2           \* AcquireLock calls one caller of SpecLock makes
MaxOps == 3             \* service calls made in one run of a service
NumNodes == 3           \* Redis masters the lock manager talks to
Retries == 3            \* RedLock.retries

Procs == 1..NumProcs
Nodes == 1..NumNodes
Nil == <<>>             \* absent key / NULL

VARIABLES
    redis,      \* redis[n][k]: value stored under lock key k on node n, or Nil
    lockc,      \* lockc[p]: the lock-manager call of caller p; its field
                \* `lapsed` records that the TTL removed a key of the call's
                \* value, `spared` that its release script met another value
    comments,   \* comments[id]: the committed row of table comments, or Nil
    likes,      \* rows of table likes, with the open transaction that
                \* inserted (xmin) or deleted (xmax) each, 0 once committed
    tx,         \* tx[p]: the open transaction of caller p
    svc,        \* svc[p]: the service call caller p is executing
    edits,      \* rows of table comment_edits, with the open transaction
                \* that is deleting each (xmax), 0 if none
    rate,       \* the token bucket limiter, its bucket in Redis and the clock
    cache,      \* the Redis cache of comment tree views
    bus         \* the events given to the event bus, each with its outcome

lockVars == <<redis, lockc>>
dbVars == <<comments, likes, tx>>
otherVars == <<edits, rate, cache, bus>>
vars == <<redis, lockc, comments, likes, tx, svc, edits, rate, cache, bus>>

\* Nothing in comment_edits, no limiter, an empty cache, no event.
NoOthers == edits = {} /\ rate = Nil /\ cache = {} /\ bus = {}

(***************************************************************************)
(* RedLock (internal/infrastructure/locks/redlock.go)                      *)
(***************************************************************************)
LockKey(resource) == <<"lock", resource>>

\* generateLockValue: 16 random bytes; a value is never drawn twice, so it is
\* identified by the caller and the number of the call that drew it.
generateLockValue(p, n) == <<p, n>>

\* reached: the nodes that answered the commands of the last AcquireLock.
IdleCall == [pc |-> "idle", resource |-> Nil, value |-> Nil,
             i |-> 0, j |-> 0, acquired |-> 0, calls |-> 0,
             lapsed |-> FALSE, spared |-> FALSE, reached |-> Nodes]

MutQuorum == NumNodes \div 2

quorum == NumNodes \div 2 + 1

MutSetNX(old, value) == value

\* SET key value NX PX ttl on one node: the stored value afterwards.
SetNX(old, value) == IF old = Nil THEN value ELSE old

\* The release script on one node: DEL only if GET == value.
MutCompareAndDelete(old, value) == Nil

MutCompareAndKeep(old, value) == old

CompareAndDelete(old, value) == IF old = value THEN Nil ELSE old

\* AcquireLock entry: draw the value and enter the retry loop with i = 0.
AcquireLock(p, resource) ==
    /\ lockc[p].pc = "idle"
    /\ lockc[p].calls < MaxCalls
    /\ lockc' = [lockc EXCEPT ![p] =
            [pc |-> "setnx", resource |-> resource,
             value |-> generateLockValue(p, lockc[p].calls + 1),
             i |-> 0, j |-> 1, acquired |-> 0, calls |-> lockc[p].calls + 1,
             lapsed |-> FALSE, spared |-> FALSE, reached |-> {}]]
    /\ UNCHANGED redis

\* tryAcquire, one iteration of its loop: acquireOnNode on node j; after the
\* last node the quorum test decides between returning the lock and
\* releasing what was set.
\* net: the command and its reply arrive ("ok"), the command does not reach
\* the node ("down"), or it is carried out and its reply is lost
\* ("timeout"); in the last two cases acquireOnNode returns an error.
AcquireOnNodeVia(p, net) ==
    LET c == lockc[p]
        k == LockKey(c.resource)
        old == redis[c.j][k]
        new == IF net = "down" THEN old ELSE SetNX(old, c.value)
        ok == net = "ok" /\ old = Nil
        acq == IF ok THEN c.acquired + 1 ELSE c.acquired
    IN  /\ c.pc = "setnx"
        /\ redis' = [redis EXCEPT ![c.j][k] = new]
        /\ lockc' = [lockc EXCEPT ![p] =
                IF c.j < NumNodes
                THEN [c EXCEPT !.j = c.j + 1, !.acquired = acq]
                ELSE IF acq >= quorum
                     THEN [c EXCEPT !.pc = "held", !.j = 0, !.acquired = acq]
                     ELSE [c EXCEPT !.pc = "unlock", !.j = 1, !.acquired = acq]]

AcquireOnNode(p) == AcquireOnNodeVia(p, "ok")

MutRetry(i) == i < Retries

\* for i := 0; i < rl.retries; i++: after attempt i comes another one.
Retry(i) == i + 1 < Retries

\* ReleaseLock, one iteration of its loop (compare-and-delete on node j).
\* Called by tryAcquire after a failed attempt (pc "unlock": then the caller
\* sleeps and retries, or gives up after `retries` attempts) and by the
\* holder (pc "release").
\* The result of client.Eval is dropped: the script ran unless the node
\* was not reached.  reached: the nodes on which the scripts of the release
\* pass of a failed attempt ran.
ReleaseOnNodeVia(p, net) ==
    LET c == lockc[p]
        k == LockKey(c.resource)
        old == redis[c.j][k]
        d == [c EXCEPT !.spared = @ \/ (old # Nil /\ old # c.value),
                       !.reached = IF c.pc = "unlock" /\ net # "down"
                                   THEN @ \cup {c.j} ELSE @]
    IN  /\ c.pc \in {"unlock", "release"}
        /\ redis' = [redis EXCEPT ![c.j][k] =
                        IF net = "down" THEN old
                        ELSE CompareAndDelete(old, c.value)]
        /\ lockc' = [lockc EXCEPT ![p] =
                IF c.j < NumNodes
                THEN [d EXCEPT !.j = c.j + 1]
                ELSE IF c.pc = "release"
                     THEN [d EXCEPT !.pc = "idle", !.j = 0]
                     ELSE IF Retry(c.i)
                          THEN [d EXCEPT !.pc = "setnx", !.i = c.i + 1,
                                         !.j = 1, !.acquired = 0,
                                         !.reached = {}]
                          ELSE [d EXCEPT !.pc = "timeout", !.j = 0]]

ReleaseOnNode(p) == ReleaseOnNodeVia(p, "ok")

\* The holder calls ReleaseLock(lock).
ReleaseLock(p) ==
    /\ lockc[p].pc = "held"
    /\ lockc' = [lockc EXCEPT ![p].pc = "release", ![p].j = 1]
    /\ UNCHANGED redis

\* AcquireLock returned the "failed to acquire lock" error: the caller is
\* free to call again.
AcquireFailed(p) ==
    /\ lockc[p].pc = "timeout"
    /\ lockc' = [lockc EXCEPT ![p].pc = "idle", ![p].reached = {}]
    /\ UNCHANGED redis

\* The PX ttl of a key runs out on one node.
Expire(n, k) ==
    /\ redis[n][k] # Nil
    /\ redis' = [redis EXCEPT ![n][k] = Nil]
    /\ lockc' = [p \in DOMAIN lockc |->
            IF lockc[p].value = redis[n][k]
            THEN [lockc[p] EXCEPT !.lapsed = TRUE] ELSE lockc[p]]

(***************************************************************************)
(* The lock manager as the services call it.  In the service               *)
(* specifications a call of AcquireLock or ReleaseLock is one step: the    *)
(* interleavings of its per-node steps are those of SpecLock.              *)
(***************************************************************************)
\* The nodes after the loop of tryAcquire ran acquireOnNode on each of them;
\* the command reaches the nodes `up` only.
AfterTryAcquire(store, k, value, up) ==
    [n \in Nodes |-> IF n \in up THEN [store[n] EXCEPT ![k] = SetNX(@, value)]
                     ELSE store[n]]

\* The nodes after the loop of ReleaseLock ran the script on each of them.
AfterRelease(store, k, value, up) ==
    [n \in Nodes |->
        IF n \in up THEN [store[n] EXCEPT ![k] = CompareAndDelete(@, value)]
        ELSE store[n]]

\* AcquireLock run to its return.  With no step of another caller in
\* between, each of the `retries` attempts finds the nodes as the first did:
\* the lock is returned at once, or every attempt sets and releases the free
\* nodes and the call fails.
\* `up` are the nodes that can be reached during the call: acquireOnNode
\* returns an error on the others, which tryAcquire counts as not acquired.
AcquireLockOn(p, resource, up) ==
    LET k == LockKey(resource)
        value == generateLockValue(p, lockc[p].calls + 1)
        acquired == Cardinality({n \in up : redis[n][k] = Nil})
        tried == AfterTryAcquire(redis, k, value, up)
        c == [IdleCall EXCEPT !.resource = resource, !.value = value,
                              !.acquired = acquired, !.reached = up,
                              !.calls = lockc[p].calls + 1]
    IN  /\ lockc[p].pc = "idle"
        /\ redis' = IF acquired >= quorum THEN tried
                    ELSE AfterRelease(tried, k, value, up)
        /\ lockc' = [lockc EXCEPT ![p] =
                [c EXCEPT !.pc = IF acquired >= quorum THEN "held" ELSE "timeout",
                          !.i = IF acquired >= quorum THEN 0 ELSE Retries]]

AcquireLockCall(p, resource) == AcquireLockOn(p, resource, Nodes)

\* ReleaseLock(lock) run to its return.
ReleaseLockCall(p) ==
    /\ lockc[p].pc = "held"
    /\ redis' = AfterRelease(redis, LockKey(lockc[p].resource), lockc[p].value,
                             Nodes)
    /\ lockc' = [lockc EXCEPT ![p].pc = "idle"]

(***************************************************************************)
(* The primary store (PostgreSQL): tables comments and likes.              *)
(***************************************************************************)
NoParent == 0           \* parent_id IS NULL
Dot == 0                \* the "." between the ids of a path

\* No transaction.  snap: a SERIALIZABLE transaction has taken its snapshot;
\* stale: the comments that transactions committed after that snapshot wrote.
NoTx == [open |-> FALSE, locks |-> {}, cw |-> <<>>, snap |-> FALSE,
         stale |-> {}]

\* A caller of a service between calls.  parent, d, path: the ParentID of a
\* CreateComment and the depth and path it computed.
IdleSvc == [op |-> "none", pc |-> "idle", n |-> 0, t |-> 0, c |-> 0, u |-> 0,
            kind |-> "", found |-> FALSE, ret |-> -1, ok |-> FALSE, err |-> "",
            parent |-> 0, d |-> 0, path |-> <<>>]

\* deleted_at TIMESTAMPTZ is NULL.
NoTime == 0

\* A new row of table comments as handleCreateComment inserts it.  deleted
\* stands for "deleted_at IS NOT NULL".
CommentRow(tenant, parent, depth, path) ==
    [tenant |-> tenant, parent |-> parent, depth |-> depth, path |-> path,
     status |-> "ACTIVE", deleted |-> FALSE, deleted_at |-> NoTime,
     like_count |-> 0, reply_count |-> 0]

\* The row of a comment that DELETE FROM comments has removed.  The id stays
\* in the domain of comments because a UUID is never issued twice; the table
\* holds no row for it.
Purged == "PURGED"

\* The row of comment c as transaction p sees it: its own pending write, or
\* the committed row.
ReadComment(p, c) ==
    IF c \in DOMAIN tx[p].cw THEN tx[p].cw[c] ELSE comments[c]

CommentExists(p, c) ==
    /\ c \in DOMAIN tx[p].cw \/ c \in DOMAIN comments
    /\ ReadComment(p, c).status # Purged

\* The committed table holds a row for c.
Stored(c) == c \in DOMAIN comments /\ comments[c].status # Purged

\* NOW() / time.Now(): later than every timestamp a row carries.
Now ==
    LET stamps == {comments[c].deleted_at : c \in DOMAIN comments}
                    \cup UNION {{tx[p].cw[c].deleted_at :
                                    c \in DOMAIN tx[p].cw} : p \in Procs}
    IN  1 + CHOOSE m \in stamps \cup {NoTime} :
                \A x \in stamps : x <= m

MutRowLockedByOther(p, c) == FALSE

\* Another open transaction holds the row lock of comment c (it updated the
\* row or selected it FOR UPDATE): a writer of c waits for its end.
RowLockedByOther(p, c) ==
    \E q \in Procs \ {p} : tx[q].open /\ c \in tx[q].locks

BeginTx(p) == [NoTx EXCEPT !.open = TRUE]

\* A SERIALIZABLE transaction updates a row that a transaction committed
\* after its snapshot has written: "could not serialize access due to
\* concurrent update".
SerializationFailure(p, c) == c \in tx[p].stale

MutWriteComment(p, c, row) == [tx[p] EXCEPT !.locks = @ \cup {c}]

\* UPDATE comments SET ... WHERE id = c inside p's transaction.
WriteComment(p, c, row) ==
    [tx[p] EXCEPT !.locks = @ \cup {c}, !.cw = (c :> row) @@ @]

\* The rows of likes a statement of p sees.
VisibleLikes(p) ==
    {r \in likes : r.xmin \in {0, p} /\ r.xmax # p}

LikesOf(p, t, c, u) ==
    {r \in VisibleLikes(p) : r.tenant = t /\ r.comment = c /\ r.user = u}

\* Rows under the key (t, c, u) that another open transaction has inserted
\* or is deleting: a statement that needs the key waits for that transaction.
LikeKeyBusy(p, t, c, u) ==
    \E r \in likes :
        /\ r.tenant = t /\ r.comment = c /\ r.user = u
        /\ r.xmin \notin {0, p} \/ r.xmax \notin {0, p}

MutUniqueViolation(p, t, c, u) == FALSE

\* CONSTRAINT unique_likes_user_comment UNIQUE (tenant_id, comment_id, user_id)
UniqueViolation(p, t, c, u) == LikesOf(p, t, c, u) # {}

\* gen_random_uuid() / uuid.New(): an id no row carries.
NewLikeId ==
    CHOOSE i \in 1..(Cardinality(likes) + 1) : \A r \in likes : r.id # i

LikeRow(p, t, c, u, kind) ==
    [id |-> NewLikeId, tenant |-> t, comment |-> c, user |-> u,
     reaction |-> kind, xmin |-> p, xmax |-> 0]

\* The table without its trigger.
MutPreventLike(p, c) == FALSE

\* Trigger prevent_like_deleted (BEFORE INSERT ON likes).
prevent_like_deleted_comment(p, c) ==
    CommentExists(p, c) /\ ReadComment(p, c).deleted

\* DELETE of the visible rows `rows` by p: rows p inserted itself vanish,
\* committed rows are marked until p commits.
DeleteLikes(p, rows) ==
    (likes \ rows)
        \cup {[r EXCEPT !.xmax = p] : r \in {x \in rows : x.xmin = 0}}

\* UPDATE likes SET reaction = kind on the visible rows `rows`.
UpdateLikes(p, rows, kind) ==
    DeleteLikes(p, rows)
        \cup {[r EXCEPT !.reaction = kind, !.xmin = p] : r \in rows}

CommitLikes(p) ==
    {IF r.xmin = p THEN [r EXCEPT !.xmin = 0] ELSE r :
        r \in {x \in likes : x.xmax # p}}

RollbackLikes(p) ==
    {[r EXCEPT !.xmax = 0] : r \in {x \in likes : x.xmin # p /\ x.xmax = p}}
        \cup {r \in likes : r.xmin # p /\ r.xmax # p}

CommitComments(p) ==
    [c \in DOMAIN comments \cup DOMAIN tx[p].cw |-> ReadComment(p, c)]

\* COMMIT of p's transaction: all its writes become visible together.
Commit(p) ==
    /\ comments' = CommitComments(p)
    /\ likes' = CommitLikes(p)
    /\ tx' = [q \in Procs |->
                IF q = p THEN NoTx
                ELSE IF tx[q].snap
                     THEN [tx[q] EXCEPT !.stale = @ \cup DOMAIN tx[p].cw]
                     ELSE tx[q]]

\* ROLLBACK (the deferred tx.Rollback(), or the abort of a failed function).
Rollback(p) ==
    /\ likes' = RollbackLikes(p)
    /\ tx' = [tx EXCEPT ![p] = NoTx]
    /\ UNCHANGED comments

(***************************************************************************)
(* Reactions: LikeService.LikeComment (Go) and the functions add_like and  *)
(* remove_like of migration 005.                                           *)
(***************************************************************************)
Max(a, b) == IF a >= b THEN a ELSE b

LikeResource(c, u) == <<"comment:like", c, u>>

Call(p, op, pc, t, c, u, kind) ==
    [IdleSvc EXCEPT !.op = op, !.pc = pc, !.n = svc[p].n + 1, !.t = t,
                    !.c = c, !.u = u, !.kind = kind]

RECURSIVE CallsMade(_)
CallsMade(ps) ==
    IF ps = {} THEN 0
    ELSE LET p == CHOOSE q \in ps : TRUE IN svc[p].n + CallsMade(ps \ {p})

CanCall(p) == svc[p].pc \in {"idle", "done"} /\ CallsMade(Procs) < MaxOps

Goto(p, pc) == [svc EXCEPT ![p].pc = pc]

Fail(p, pc, err) == [svc EXCEPT ![p].pc = pc, ![p].err = err]

MutIncrementLikes(n) == n

\* SET like_count = like_count + 1
IncrementLikes(n) == n + 1

MutDecrementLikes(n) == n - 1

\* SET like_count = GREATEST(like_count - 1, 0)
DecrementLikes(n) == Max(n - 1, 0)

MutAfterAcquire(held) == "begin"

\* if err != nil { return fmt.Errorf("failed to acquire lock: %w", err) }
AfterAcquire(held) == IF held THEN "begin" ELSE "done"

\* LikeComment, step 1: AcquireLock on "comment:like:<comment>:<user>"; its
\* error is returned before anything is begun.
LikeCommentOn(p, t, c, u, up) ==
    /\ CanCall(p)
    /\ AcquireLockOn(p, LikeResource(c, u), up)
    /\ svc' = [svc EXCEPT ![p] =
            [Call(p, "LikeComment", AfterAcquire(lockc'[p].pc = "held"),
                  t, c, u, "LIKE")
                EXCEPT !.err = IF lockc'[p].pc = "held" THEN ""
                               ELSE "failed to acquire lock"]]
    /\ UNCHANGED dbVars

LikeComment(p, t, c, u) == LikeCommentOn(p, t, c, u, Nodes)

\* Step 2: BeginTx with Isolation: sql.LevelSerializable.
LikeBegin(p) ==
    /\ svc[p].op = "LikeComment" /\ svc[p].pc = "begin"
    /\ tx' = [tx EXCEPT ![p] = BeginTx(p)]
    /\ svc' = Goto(p, "check")
    /\ UNCHANGED <<redis, lockc, comments, likes>>

\* Step 3: SELECT EXISTS(... FOR UPDATE); ErrAlreadyLiked if the row exists.
\* The first statement of the transaction takes its snapshot.
\* FOR UPDATE waits for a transaction that is deleting the row and locks it
\* until this transaction ends.
LikeCheck(p) ==
    LET rows == LikesOf(p, svc[p].t, svc[p].c, svc[p].u) IN
    /\ svc[p].pc = "check"
    /\ \A r \in rows : r.xmax \in {0, p}
    /\ likes' = (likes \ rows) \cup {[r EXCEPT !.xmax = p] : r \in rows}
    /\ svc' = IF rows # {}
              THEN [svc EXCEPT ![p].pc = "rollback", ![p].found = TRUE,
                               ![p].err = "ErrAlreadyLiked"]
              ELSE Goto(p, "insert")
    /\ tx' = [tx EXCEPT ![p].snap = TRUE]
    /\ UNCHANGED <<redis, lockc, comments>>

\* Another open transaction has deleted the row of comment c: the check of
\* fk_likes_comment waits for that transaction.
DeletedByOther(p, c) ==
    \E q \in Procs \ {p} :
        /\ tx[q].open /\ c \in DOMAIN tx[q].cw
        /\ tx[q].cw[c].status = Purged

\* INSERT INTO likes by p: the statement's error, "" if the row goes in.
InsertLikeError(p, t, c, u) ==
    IF ~CommentExists(p, c) THEN "fk_likes_comment"
    ELSE IF prevent_like_deleted_comment(p, c) THEN "Cannot like a deleted comment"
    ELSE IF UniqueViolation(p, t, c, u) THEN "unique_likes_user_comment"
    ELSE ""

\* Step 4 of LikeComment and the ELSE branch of add_like: INSERT INTO likes.
\* What the INSERT can raise.  The trigger's SELECT in a SERIALIZABLE
\* transaction reads the snapshot of the transaction: when the comment's row
\* has been changed since, the snapshot may show it as not deleted yet.
InsertLikeErrors(p, t, c, u) ==
    LET e == InsertLikeError(p, t, c, u)
    IN  IF e = "Cannot like a deleted comment" /\ tx[p].snap /\ c \in tx[p].stale
        THEN {e, IF UniqueViolation(p, t, c, u)
                 THEN "unique_likes_user_comment" ELSE ""}
        ELSE {e}

InsertLike(p, next, failed) ==
    LET a == svc[p]
    IN  /\ ~LikeKeyBusy(p, a.t, a.c, a.u)
        /\ ~DeletedByOther(p, a.c)
        /\ \E e \in InsertLikeErrors(p, a.t, a.c, a.u) :
              /\ likes' = IF e = ""
                          THEN likes \cup {LikeRow(p, a.t, a.c, a.u, a.kind)}
                          ELSE likes
              /\ svc' = IF e = "" THEN Goto(p, next) ELSE Fail(p, failed, e)
        /\ UNCHANGED <<redis, lockc, comments, tx>>

LikeInsert(p) ==
    /\ svc[p].op = "LikeComment" /\ svc[p].pc = "insert"
    /\ InsertLike(p, "update", "rollback")

\* Step 5: UPDATE comments SET like_count = like_count + 1
\*         WHERE id = $1 AND tenant_id = $2; its error is returned as
\*         "failed to update like count", ErrCommentNotFound on 0 rows.
LikeUpdate(p) ==
    LET a == svc[p]
        hit == CommentExists(p, a.c) /\ ReadComment(p, a.c).tenant = a.t
        row == ReadComment(p, a.c)
        failed == hit /\ SerializationFailure(p, a.c)
    IN  /\ a.pc = "update"
        /\ ~RowLockedByOther(p, a.c)
        /\ tx' = IF hit /\ ~failed
                 THEN [tx EXCEPT ![p] = WriteComment(p, a.c,
                          [row EXCEPT !.like_count = IncrementLikes(@)])]
                 ELSE tx
        /\ svc' = IF failed
                  THEN Fail(p, "rollback", "failed to update like count")
                  ELSE IF hit THEN Goto(p, "commit")
                  ELSE Fail(p, "rollback", "ErrCommentNotFound")
        /\ UNCHANGED <<redis, lockc, comments, likes>>

\* Step 6: tx.Commit(), return nil.
LikeCommit(p) ==
    /\ svc[p].op = "LikeComment" /\ svc[p].pc = "commit"
    /\ Commit(p)
    /\ svc' = [svc EXCEPT ![p].pc = "release", ![p].ok = TRUE]
    /\ UNCHANGED <<redis, lockc>>

\* An error return: the deferred tx.Rollback().
LikeRollback(p) ==
    /\ svc[p].op = "LikeComment" /\ svc[p].pc = "rollback"
    /\ Rollback(p)
    /\ svc' = Goto(p, "release")
    /\ UNCHANGED <<redis, lockc>>

\* The deferred ReleaseLock, after which the call has returned.
LikeRelease(p) ==
    /\ svc[p].op = "LikeComment" /\ svc[p].pc = "release"
    /\ ReleaseLockCall(p)
    /\ svc' = Goto(p, "done")
    /\ UNCHANGED dbVars

\* add_like(p_tenant_id, p_comment_id, p_user_id, p_reaction): SELECT EXISTS.
add_like(p, t, c, u, kind) ==
    /\ CanCall(p)
    /\ tx' = [tx EXCEPT ![p] = BeginTx(p)]
    /\ svc' = [svc EXCEPT ![p] =
            [Call(p, "add_like", "exists", t, c, u, kind)
                EXCEPT !.found = LikesOf(p, t, c, u) # {},
                       !.pc = IF LikesOf(p, t, c, u) # {} THEN "react" ELSE "insert"]]
    /\ UNCHANGED <<redis, lockc, comments, likes>>

\* add_like, IF v_already_exists: UPDATE likes SET reaction = p_reaction.
AddLikeUpdate(p) ==
    LET a == svc[p]
        rows == LikesOf(p, a.t, a.c, a.u)
    IN  /\ a.op = "add_like" /\ a.pc = "react"
        /\ \A r \in rows : r.xmax \in {0, p}
        /\ likes' = UpdateLikes(p, rows, a.kind)
        /\ svc' = Goto(p, "read")
        /\ UNCHANGED <<redis, lockc, comments, tx>>

\* add_like / remove_like: SELECT like_count INTO v_like_count, RETURN QUERY.
\* `ok` is the success column: true for add_like, false for remove_like.
ReadLikeCount(p) ==
    LET a == svc[p] IN
    /\ a.op \in {"add_like", "remove_like"} /\ a.pc = "read"
    /\ svc' = [svc EXCEPT ![p].pc = "commit",
                          ![p].ok = (a.op = "add_like"),
                          ![p].ret = IF CommentExists(p, a.c)
                                     THEN ReadComment(p, a.c).like_count ELSE -1]
    /\ UNCHANGED <<redis, lockc, comments, likes, tx>>

\* add_like, ELSE: INSERT INTO likes; an exception aborts the function.
AddLikeInsert(p) ==
    /\ svc[p].op = "add_like" /\ svc[p].pc = "insert"
    /\ InsertLike(p, "count", "abort")

\* add_like: UPDATE comments SET like_count = like_count + 1 ... RETURNING;
\* remove_like: UPDATE comments SET like_count = GREATEST(like_count - 1, 0).
UpdateLikeCount(p) ==
    LET a == svc[p]
        hit == CommentExists(p, a.c)
        row == ReadComment(p, a.c)
        new == IF a.op = "add_like" THEN IncrementLikes(row.like_count)
               ELSE DecrementLikes(row.like_count)
    IN  /\ a.op \in {"add_like", "remove_like"} /\ a.pc = "count"
        /\ ~RowLockedByOther(p, a.c)
        /\ tx' = IF hit
                 THEN [tx EXCEPT ![p] = WriteComment(p, a.c,
                          [row EXCEPT !.like_count = new])]
                 ELSE tx
        /\ svc' = [svc EXCEPT ![p].pc = "commit", ![p].ok = TRUE,
                              ![p].ret = IF hit THEN new ELSE -1]
        /\ UNCHANGED <<redis, lockc, comments, likes>>

MutAfterDelete(deleted) == "count"

\* remove_like: IF v_deleted THEN (decrement) ELSE (like didn't exist).
AfterDelete(deleted) == IF deleted THEN "count" ELSE "read"

\* remove_like(p_tenant_id, p_comment_id, p_user_id): DELETE FROM likes ...
\* RETURNING true INTO v_deleted, which waits for a transaction that is
\* deleting the same row.
remove_like(p, t, c, u) ==
    LET rows == LikesOf(p, t, c, u) IN
    /\ CanCall(p)
    /\ \A r \in rows : r.xmax \in {0, p}
    /\ tx' = [tx EXCEPT ![p] = BeginTx(p)]
    /\ likes' = DeleteLikes(p, rows)
    /\ svc' = [svc EXCEPT ![p] =
            [Call(p, "remove_like", "count", t, c, u, "")
                EXCEPT !.found = rows # {}, !.pc = AfterDelete(rows # {})]]
    /\ UNCHANGED <<redis, lockc, comments>>

\* The function returns: its statement's transaction commits.
SqlCommit(p) ==
    /\ svc[p].op \in {"add_like", "remove_like"} /\ svc[p].pc = "commit"
    /\ Commit(p)
    /\ svc' = Goto(p, "done")
    /\ UNCHANGED <<redis, lockc>>

\* The function raised: its transaction is rolled back.
SqlAbort(p) ==
    /\ svc[p].op \in {"add_like", "remove_like"} /\ svc[p].pc = "abort"
    /\ Rollback(p)
    /\ svc' = Goto(p, "done")
    /\ UNCHANGED <<redis, lockc>>

\* A function that is one UPDATE of comment c, called as a statement of its
\* own: it waits for the row lock, writes and commits.
UpdateCount(p, op, c, count(_)) ==
    LET hit == Stored(c)
        new == count(comments[c].like_count)
    IN  /\ CanCall(p)
        /\ ~RowLockedByOther(p, c)
        /\ comments' = IF hit THEN [comments EXCEPT ![c].like_count = new]
                       ELSE comments
        /\ tx' = [q \in Procs |->
                    IF hit /\ tx[q].snap
                    THEN [tx[q] EXCEPT !.stale = @ \cup {c}] ELSE tx[q]]
        /\ svc' = [svc EXCEPT ![p] =
                [Call(p, op, "done", 0, c, 0, "")
                    EXCEPT !.ok = hit, !.ret = IF hit THEN new ELSE -1]]
        /\ UNCHANGED <<redis, lockc, likes>>

\* increment_comment_likes(p_comment_id)
increment_comment_likes(p, c) ==
    UpdateCount(p, "increment_comment_likes", c, IncrementLikes)

\* decrement_comment_likes(p_comment_id)
decrement_comment_likes(p, c) ==
    UpdateCount(p, "decrement_comment_likes", c, DecrementLikes)

(***************************************************************************)
(* The comment tree: CommandHandler.handleCreateComment and                *)
(* handleDeleteComment (Go), soft_delete_comment_tree (migration 004).     *)
(***************************************************************************)
max_nesting_depth == 10         \* tenants.settings "max_nesting_depth"
comments_depth_max == 100       \* CONSTRAINT comments_depth_max CHECK

ReplyResource(parent) == <<"comment:reply", parent>>

\* cmd.ID: an id no comment and no other call of CreateComment has.
NewCommentId ==
    LET used == DOMAIN comments
                  \cup {svc[q].c : q \in {r \in Procs : svc[r].op = "CreateComment"}}
    IN  CHOOSE i \in 1..(Cardinality(used) + 1) : i \notin used

MutReplyDepth(parentDepth) == parentDepth

\* depth = parentDepth + 1
ReplyDepth(parentDepth) == parentDepth + 1

MutReplyPath(parentPath, parentID) == parentPath \o <<Dot, parentID>>

\* if parentPath == "" { path = parentID }
\* else { path = parentPath + "." + parentID }
ReplyPath(parentPath, parentID) ==
    IF parentPath = <<>> THEN <<parentID>>
    ELSE parentPath \o <<Dot, parentID>>

\* Steps 6.1-6.2: Validate, then AcquireLock on "comment:reply:<parent>" if
\* the comment is a reply; a root comment takes no lock.
CreateComment(p, t, parent) ==
    LET new == Call(p, "CreateComment", "begin", t, NewCommentId, 0, "")
    IN  /\ CanCall(p)
        /\ IF parent = NoParent
           THEN /\ svc' = [svc EXCEPT ![p] = new]
                /\ UNCHANGED <<redis, lockc>>
           ELSE /\ AcquireLockCall(p, ReplyResource(parent))
                /\ svc' = [svc EXCEPT ![p] =
                      [new EXCEPT !.parent = parent,
                                  !.pc = AfterAcquire(lockc'[p].pc = "held"),
                                  !.err = IF lockc'[p].pc = "held" THEN ""
                                          ELSE "failed to acquire lock"]]
        /\ UNCHANGED dbVars

\* Step 6.3: BeginTx with Isolation: sql.LevelSerializable.
CreateBegin(p) ==
    /\ svc[p].op = "CreateComment" /\ svc[p].pc = "begin"
    /\ tx' = [tx EXCEPT ![p] = BeginTx(p)]
    /\ svc' = Goto(p, IF svc[p].parent = NoParent THEN "insert" ELSE "parent")
    /\ UNCHANGED <<redis, lockc, comments, likes>>

MutSelectParent(p, parent, t) ==
    CommentExists(p, parent) /\ ReadComment(p, parent).tenant = t

\* WHERE id = $1 AND tenant_id = $2 AND deleted_at IS NULL
SelectParent(p, parent, t) ==
    /\ CommentExists(p, parent)
    /\ ReadComment(p, parent).tenant = t
    /\ ~ReadComment(p, parent).deleted

\* Step 6.4: SELECT depth, path FROM comments WHERE id = $1 AND
\* tenant_id = $2 AND deleted_at IS NULL FOR UPDATE; ErrParentNotFound on no
\* row; depth and path of the reply.  The statement takes the snapshot of
\* the transaction when it starts, which may be before it gets the row lock.
CreateParent(p) ==
    LET a == svc[p]
        hit == SelectParent(p, a.parent, a.t)
        row == ReadComment(p, a.parent)
        failed == SerializationFailure(p, a.parent)
    IN  /\ a.op = "CreateComment" /\ a.pc = "parent"
        /\ IF RowLockedByOther(p, a.parent)
           THEN /\ ~tx[p].snap
                /\ tx' = [tx EXCEPT ![p].snap = TRUE]
                /\ UNCHANGED svc
           ELSE /\ tx' = [tx EXCEPT ![p].snap = TRUE,
                                    ![p].locks = IF hit /\ ~failed
                                                 THEN @ \cup {a.parent} ELSE @]
                /\ svc' = IF failed
                          THEN Fail(p, "rollback", "could not serialize access")
                          ELSE IF hit
                          THEN [svc EXCEPT ![p].pc = "reply",
                                           ![p].d = ReplyDepth(row.depth),
                                           ![p].path = ReplyPath(row.path, a.parent)]
                          ELSE Fail(p, "rollback", "ErrParentNotFound")
        /\ UNCHANGED <<redis, lockc, comments, likes>>

\* UPDATE comments SET reply_count = reply_count + 1 WHERE id = $1
CreateReply(p) ==
    LET a == svc[p]
        row == ReadComment(p, a.parent)
    IN  /\ a.op = "CreateComment" /\ a.pc = "reply"
        /\ ~RowLockedByOther(p, a.parent)
        /\ IF SerializationFailure(p, a.parent)
           THEN /\ svc' = Fail(p, "rollback", "could not serialize access")
                /\ UNCHANGED tx
           ELSE /\ svc' = Goto(p, "insert")
                /\ tx' = [tx EXCEPT ![p] = WriteComment(p, a.parent,
                             [row EXCEPT !.reply_count = @ + 1])]
        /\ UNCHANGED <<redis, lockc, comments, likes>>

\* Step 6.5: INSERT INTO comments (...), status ACTIVE, counters 0.  The
\* only limit on depth is the table's CHECK (depth <= 100).
CreateInsert(p) ==
    LET a == svc[p] IN
    /\ a.op = "CreateComment" /\ a.pc = "insert"
    /\ IF a.d > comments_depth_max
       THEN /\ svc' = Fail(p, "rollback", "comments_depth_max")
            /\ UNCHANGED tx
       ELSE /\ svc' = Goto(p, "commit")
            /\ tx' = [tx EXCEPT ![p].snap = TRUE,
                                ![p].cw = (a.c :> CommentRow(a.t, a.parent,
                                                             a.d, a.path)) @@ @]
    /\ UNCHANGED <<redis, lockc, comments, likes>>

MutAfterTx(p) == "done"

\* The lock the call still has to release, if it took one.
AfterTx(p) == IF lockc[p].pc = "held" THEN "release" ELSE "done"

\* Step 6.7: tx.Commit(), return nil.
CreateCommit(p) ==
    /\ svc[p].op = "CreateComment" /\ svc[p].pc = "commit"
    /\ Commit(p)
    /\ svc' = [svc EXCEPT ![p].pc = AfterTx(p), ![p].ok = TRUE]
    /\ UNCHANGED <<redis, lockc>>

\* An error return: the deferred tx.Rollback().
CreateRollback(p) ==
    /\ svc[p].op = "CreateComment" /\ svc[p].pc = "rollback"
    /\ Rollback(p)
    /\ svc' = Goto(p, AfterTx(p))
    /\ UNCHANGED <<redis, lockc>>

\* The deferred ReleaseLock of a reply.
CreateRelease(p) ==
    /\ svc[p].op = "CreateComment" /\ svc[p].pc = "release"
    /\ ReleaseLockCall(p)
    /\ svc' = Goto(p, "done")
    /\ UNCHANGED dbVars

\* handleDeleteComment: BeginTx(ctx, nil); SELECT author_id ... WHERE id = $1
\* AND tenant_id = $2 AND deleted_at IS NULL FOR UPDATE; ErrCommentNotFound;
\* ErrUnauthorized unless CanDeleteComment.
DeleteComment(p, t, c, canDelete) ==
    LET hit == /\ Stored(c)
               /\ comments[c].tenant = t /\ ~comments[c].deleted
        new == Call(p, "DeleteComment", "mark", t, c, 0, "")
    IN  /\ CanCall(p)
        /\ ~RowLockedByOther(p, c)
        /\ tx' = [tx EXCEPT ![p] =
                    [BeginTx(p) EXCEPT !.locks = IF hit THEN {c} ELSE {}]]
        /\ svc' = [svc EXCEPT ![p] =
              IF ~hit THEN [new EXCEPT !.pc = "rollback",
                                       !.err = "ErrCommentNotFound"]
              ELSE IF ~canDelete THEN [new EXCEPT !.pc = "rollback", !.found = TRUE,
                                                  !.err = "ErrUnauthorized"]
              ELSE [new EXCEPT !.found = TRUE]]
        /\ UNCHANGED <<redis, lockc, comments, likes>>

\* UPDATE comments SET deleted_at = $1, status = 'DELETED', updated_at = $1
\* WHERE id = $2
DeleteMark(p) ==
    LET a == svc[p]
        row == ReadComment(p, a.c)
    IN  /\ a.op = "DeleteComment" /\ a.pc = "mark"
        /\ tx' = [tx EXCEPT ![p] = WriteComment(p, a.c,
                     [row EXCEPT !.deleted = TRUE, !.deleted_at = Now,
                                 !.status = "DELETED"])]
        /\ svc' = Goto(p, "commit")
        /\ UNCHANGED <<redis, lockc, comments, likes>>

\* tx.Commit(), return nil.
DeleteCommit(p) ==
    /\ svc[p].op = "DeleteComment" /\ svc[p].pc = "commit"
    /\ Commit(p)
    /\ svc' = [svc EXCEPT ![p].pc = "done", ![p].ok = TRUE]
    /\ UNCHANGED <<redis, lockc>>

\* An error return: the deferred tx.Rollback().
DeleteRollback(p) ==
    /\ svc[p].op = "DeleteComment" /\ svc[p].pc = "rollback"
    /\ Rollback(p)
    /\ svc' = Goto(p, "done")
    /\ UNCHANGED <<redis, lockc>>

\* path LIKE pattern || '%'
IsPrefix(pattern, path) ==
    /\ Len(pattern) <= Len(path)
    /\ SubSeq(path, 1, Len(pattern)) = pattern

\* The rows of soft_delete_comment_tree's UPDATE: WHERE id = p_comment_id OR
\* path LIKE (SELECT path || '.' || p_comment_id || '%' FROM comments
\*            WHERE id = p_comment_id)
SoftDeleted(c) ==
    {x \in DOMAIN comments :
        /\ Stored(x)
        /\ \/ x = c
           \/ /\ Stored(c)
              /\ IsPrefix(comments[c].path \o <<Dot, c>>, comments[x].path)}

\* soft_delete_comment_tree(p_comment_id) called as one statement of its
\* own: it returns the number of rows it marked.
soft_delete_comment_tree(p, c) ==
    LET rows == SoftDeleted(c) IN
    /\ CanCall(p)
    /\ \A x \in rows : ~RowLockedByOther(p, x)
    /\ comments' = [x \in DOMAIN comments |->
                      IF x \in rows
                      THEN [comments[x] EXCEPT !.deleted = TRUE,
                                               !.deleted_at = Now,
                                               !.status = "DELETED"]
                      ELSE comments[x]]
    /\ tx' = [q \in Procs |->
                IF tx[q].snap THEN [tx[q] EXCEPT !.stale = @ \cup rows]
                ELSE tx[q]]
    /\ svc' = [svc EXCEPT ![p] =
            [Call(p, "soft_delete_comment_tree", "done", 0, c, 0, "")
                EXCEPT !.ret = Cardinality(rows), !.ok = TRUE]]
    /\ UNCHANGED <<redis, lockc, likes>>

(***************************************************************************)
(* Hard delete: CommandHandler.handleHardDeleteComment (Go) and            *)
(* hard_delete_comment (migration 004).  A row of comment_edits is         *)
(* [id, tenant, comment, xmax]; xmax = p while transaction p's DELETE of   *)
(* the row is not committed.                                               *)
(***************************************************************************)
VisibleEdits(p) == {e \in edits : e.xmax # p}

DeleteEdits(p, rows) ==
    (edits \ rows) \cup {[e EXCEPT !.xmax = p] : e \in rows}

CommitEdits(p) == {e \in edits : e.xmax # p}

RollbackEdits(p) ==
    {IF e.xmax = p THEN [e EXCEPT !.xmax = 0] ELSE e : e \in edits}

\* fk_comments_parent ... ON DELETE CASCADE: the rows that go with the rows
\* cs, as transaction p sees the table.
MutCascade(p, cs) == cs

RECURSIVE Cascade(_, _)
Cascade(p, cs) ==
    LET ids == DOMAIN comments \cup DOMAIN tx[p].cw
        kids == {x \in ids \ cs :
                    CommentExists(p, x) /\ ReadComment(p, x).parent \in cs}
    IN  IF kids = {} THEN cs ELSE Cascade(p, cs \cup kids)

\* DELETE FROM comments of the rows ds waits for the transactions that hold
\* a lock on one of them, that inserted or are deleting a row of likes which
\* references one (fk_likes_comment), or that are deleting one of their
\* comment_edits.
DeleteBlocked(p, ds) ==
    \/ \E x \in ds : RowLockedByOther(p, x)
    \/ \E r \in likes :
          r.comment \in ds /\ (r.xmin \notin {0, p} \/ r.xmax \notin {0, p})
    \/ \E e \in edits : e.comment \in ds /\ e.xmax \notin {0, p}

\* The rows DELETE FROM comments removes with the rows ds, by
\* fk_likes_comment and fk_comment_edits_comment ON DELETE CASCADE.
CascadedLikes(p, ds) == {r \in VisibleLikes(p) : r.comment \in ds}

CascadedEdits(p, ds) == {e \in VisibleEdits(p) : e.comment \in ds}

MutPurgedRows(p, ds) == [x \in {} |-> ReadComment(p, x)]

\* What DELETE FROM comments leaves of the rows ds.
PurgedRows(p, ds) == [x \in ds |-> [ReadComment(p, x) EXCEPT !.status = Purged]]

\* handleHardDeleteComment: ErrUnauthorized unless cmd.IsAdmin;
\* h.db.BeginTx(ctx, nil); defer tx.Rollback().
HardDeleteComment(p, t, c, isAdmin) ==
    LET new == Call(p, "HardDeleteComment", "likes", t, c, 0, "") IN
    /\ CanCall(p)
    /\ tx' = IF isAdmin THEN [tx EXCEPT ![p] = BeginTx(p)] ELSE tx
    /\ svc' = [svc EXCEPT ![p] =
            IF isAdmin THEN new
            ELSE [new EXCEPT !.pc = "done", !.err = "ErrUnauthorized"]]
    /\ UNCHANGED <<redis, lockc, comments, likes, edits, bus>>

\* DELETE FROM likes WHERE comment_id = $1 AND tenant_id = $2
HardDeleteLikes(p) ==
    LET a == svc[p]
        rows == {r \in VisibleLikes(p) : r.comment = a.c /\ r.tenant = a.t}
    IN  /\ a.op = "HardDeleteComment" /\ a.pc = "likes"
        /\ \A r \in rows : r.xmax \in {0, p}
        /\ likes' = DeleteLikes(p, rows)
        /\ svc' = Goto(p, "edits")
        /\ UNCHANGED <<redis, lockc, comments, tx, edits, bus>>

\* DELETE FROM comment_edits WHERE comment_id = $1 AND tenant_id = $2;
\* failed: the statement returns an error, which the handler returns.
HardDeleteEdits(p, failed) ==
    LET a == svc[p]
        rows == {e \in VisibleEdits(p) : e.comment = a.c /\ e.tenant = a.t}
    IN  /\ a.op = "HardDeleteComment" /\ a.pc = "edits"
        /\ \A e \in rows : e.xmax \in {0, p}
        /\ edits' = IF failed THEN edits ELSE DeleteEdits(p, rows)
        /\ svc' = IF failed THEN Fail(p, "rollback", "store error")
                  ELSE Goto(p, "comment")
        /\ UNCHANGED <<redis, lockc, comments, likes, tx>>

\* DELETE FROM comments WHERE id = $1 AND tenant_id = $2;
\* ErrCommentNotFound if rowsAffected == 0.
HardDeleteRow(p) ==
    LET a == svc[p]
        hit == CommentExists(p, a.c) /\ ReadComment(p, a.c).tenant = a.t
        ds == IF hit THEN Cascade(p, {a.c}) ELSE {}
    IN  /\ a.op = "HardDeleteComment" /\ a.pc = "comment"
        /\ ~DeleteBlocked(p, ds)
        /\ tx' = [tx EXCEPT ![p].locks = @ \cup ds,
                            ![p].cw = PurgedRows(p, ds) @@ @]
        /\ likes' = DeleteLikes(p, CascadedLikes(p, ds))
        /\ edits' = DeleteEdits(p, CascadedEdits(p, ds))
        /\ svc' = IF hit THEN [svc EXCEPT ![p].pc = "commit", ![p].found = TRUE]
                  ELSE Fail(p, "rollback", "ErrCommentNotFound")
        /\ UNCHANGED <<redis, lockc, comments>>

\* The audit row (its error is not looked at), tx.Commit(), return nil.
HardDeleteCommit(p) ==
    /\ svc[p].op = "HardDeleteComment" /\ svc[p].pc = "commit"
    /\ Commit(p)
    /\ edits' = CommitEdits(p)
    /\ svc' = [svc EXCEPT ![p].pc = "done", ![p].ok = TRUE]
    /\ UNCHANGED <<redis, lockc>>

\* An error return: the deferred tx.Rollback().
HardDeleteRollback(p) ==
    /\ svc[p].op = "HardDeleteComment" /\ svc[p].pc = "rollback"
    /\ Rollback(p)
    /\ edits' = RollbackEdits(p)
    /\ svc' = Goto(p, "done")
    /\ UNCHANGED <<redis, lockc>>

\* hard_delete_comment(p_comment_id) called as one statement of its own:
\* DELETE FROM likes, DELETE FROM comment_edits, DELETE FROM comments, each
\* WHERE the comment is p_comment_id; RETURN FOUND.
hard_delete_comment(p, c) ==
    LET ds == IF Stored(c) THEN Cascade(p, {c}) ELSE {}
        gone == PurgedRows(p, ds)
    IN  /\ CanCall(p)
        /\ ~DeleteBlocked(p, ds \cup {c})
        /\ comments' = [x \in DOMAIN comments |->
                          IF x \in DOMAIN gone THEN gone[x] ELSE comments[x]]
        /\ likes' = likes \ CascadedLikes(p, ds \cup {c})
        /\ edits' = edits \ CascadedEdits(p, ds \cup {c})
        /\ tx' = [q \in Procs |->
                    IF tx[q].snap THEN [tx[q] EXCEPT !.stale = @ \cup ds]
                    ELSE tx[q]]
        /\ svc' = [svc EXCEPT ![p] =
                [Call(p, "hard_delete_comment", "done", 0, c, 0, "")
                    EXCEPT !.found = Stored(c), !.ok = TRUE]]
        /\ UNCHANGED <<redis, lockc>>

(***************************************************************************)
(* TokenBucketLimiter (internal/infrastructure/ratelimit) and the          *)
(* RateLimit middleware.  The clock counts fractions of a second so that   *)
(* a wait of 1/refillRate seconds is a whole number of ticks.              *)
(***************************************************************************)
MaxCapacity == 5        \* largest tbl.capacity tried
MaxRate == 2            \* largest tbl.refillRate tried
BucketTTL == 120        \* redis.call('EXPIRE', key, 120)

Min(a, b) == IF a <= b THEN a ELSE b

RECURSIVE Product(_)
Product(n) == IF n <= 1 THEN 1 ELSE n * Product(n - 1)

\* Ticks of the clock in one second.
Resolution == Product(MaxRate)

\* now := time.Now().Unix()
Unix(clock) == clock \div Resolution

\* NewTokenBucketLimiter(redis, capacity, refillRate) at some moment, with no
\* bucket in Redis yet.
NewTokenBucketLimiter(capacity, refillRate, clock) ==
    [capacity |-> capacity, refillRate |-> refillRate, clock |-> clock,
     bucket |-> Nil, log |-> <<>>]

\* The script without its two guards: no cap on the refill, and a token
\* taken whether or not one is there.
MutTokenBucketScript(bucket, capacity, refill_rate, now, requested) ==
    LET tokens0 == IF bucket = Nil THEN capacity ELSE bucket.tokens
        last_refill == IF bucket = Nil THEN now ELSE bucket.last_refill
        left == tokens0 + (now - last_refill) * refill_rate - requested
    IN  [bucket |-> [tokens |-> left, last_refill |-> now],
         allowed |-> TRUE, remaining |-> left, limit |-> capacity]

\* The Lua script: HMGET (or capacity / now), refill capped at capacity,
\* take `requested` tokens if they are there, HMSET tokens and last_refill.
TokenBucketScript(bucket, capacity, refill_rate, now, requested) ==
    LET tokens0 == IF bucket = Nil THEN capacity ELSE bucket.tokens
        last_refill == IF bucket = Nil THEN now ELSE bucket.last_refill
        time_elapsed == now - last_refill
        tokens_to_add == time_elapsed * refill_rate
        tokens == Min(capacity, tokens0 + tokens_to_add)
        allowed == tokens >= requested
        left == IF allowed THEN tokens - requested ELSE tokens
    IN  [bucket |-> [tokens |-> left, last_refill |-> now],
         allowed |-> allowed, remaining |-> left, limit |-> capacity]

\* info.RetryAfter = int64(1.0 / float64(tbl.refillRate))
RetryAfter(refillRate) == 1 \div refillRate

\* TokenBucketLimiter.AllowRequest: the script asked for 1 token; its answer
\* as (allowed, info).
AllowRequest ==
    LET res == TokenBucketScript(rate.bucket, rate.capacity, rate.refillRate,
                                 Unix(rate.clock), 1)
    IN  /\ rate # Nil
        /\ Len(rate.log) < rate.capacity + 3
        /\ rate' = [rate EXCEPT
              !.bucket = res.bucket,
              !.log = Append(@, [clock |-> rate.clock,
                                 allowed |-> res.allowed,
                                 remaining |-> res.remaining,
                                 retryAfter |-> IF res.allowed THEN 0
                                                ELSE RetryAfter(rate.refillRate)])]
        /\ UNCHANGED <<redis, lockc, comments, likes, tx, svc, edits, cache, bus>>

\* Time passes.
Tick ==
    /\ rate # Nil
    /\ rate.clock < 3 * Resolution
    /\ rate' = [rate EXCEPT !.clock = @ + 1]
    /\ UNCHANGED <<redis, lockc, comments, likes, tx, svc, edits, cache, bus>>

\* The key is dropped with no idle time behind it.
MutBucketExpire ==
    /\ rate # Nil /\ rate.bucket # Nil
    /\ rate.clock < 3 * Resolution
    /\ rate' = [rate EXCEPT !.bucket = Nil]
    /\ UNCHANGED <<redis, lockc, comments, likes, tx, svc, edits, cache, bus>>

\* The bucket's key has not been written for BucketTTL seconds: it is gone.
BucketExpire ==
    /\ rate # Nil /\ rate.bucket # Nil
    /\ rate.clock < 3 * Resolution
    /\ rate' = [rate EXCEPT !.clock = @ + BucketTTL * Resolution,
                            !.bucket = Nil]
    /\ UNCHANGED <<redis, lockc, comments, likes, tx, svc, edits, cache, bus>>

\* The bucket's key is lost with no time passing (FLUSHALL, a restart of the
\* Redis node): the next script run finds no bucket and starts from capacity.
BucketLost ==
    /\ rate # Nil /\ rate.bucket # Nil
    /\ rate' = [rate EXCEPT !.bucket = Nil]
    /\ UNCHANGED <<redis, lockc, comments, likes, tx, svc, edits, cache, bus>>

\* AllowRequest as two steps of one caller among several.  AllowNow is the
\* Go statement now := time.Now().Unix(); AllowEval is the script, run by
\* Redis in one piece with the `now` that its caller took earlier.
AllowNow(p) ==
    /\ rate # Nil
    /\ CanCall(p)
    /\ svc' = [svc EXCEPT ![p] =
            [op |-> "AllowRequest", pc |-> "eval", n |-> svc[p].n + 1,
             now |-> Unix(rate.clock)]]
    /\ UNCHANGED <<redis, lockc, dbVars, otherVars>>

AllowEval(p) ==
    LET res == TokenBucketScript(rate.bucket, rate.capacity, rate.refillRate,
                                 svc[p].now, 1)
    IN  /\ svc[p].op = "AllowRequest" /\ svc[p].pc = "eval"
        /\ rate' = [rate EXCEPT
              !.bucket = res.bucket,
              !.log = Append(@, [clock |-> rate.clock,
                                 allowed |-> res.allowed,
                                 remaining |-> res.remaining,
                                 retryAfter |-> IF res.allowed THEN 0
                                                ELSE RetryAfter(rate.refillRate)])]
        /\ svc' = [svc EXCEPT ![p].pc = "done"]
        /\ UNCHANGED <<redis, lockc, dbVars, edits, cache, bus>>

(***************************************************************************)
(* The RateLimit middleware (internal/interfaces/http/middleware) with     *)
(* ratelimit.Service.CheckTenantRateLimit and SlidingWindowCounter.  Here  *)
(* rate is [count, limit]: the counter of the current window of one of the *)
(* plan's limits, with no request in the window before.                    *)
(***************************************************************************)
\* SlidingWindowCounter.AllowRequest.  readUp: the pipeline of the two GETs
\* reaches Redis (its error is dropped and the counts read as 0 otherwise);
\* writeUp: the pipeline of INCR and EXPIRE does (its error is returned).
SlidingWindowCounter(count, limit, readUp, writeUp) ==
    LET current == IF readUp THEN count ELSE 0 IN
    IF current >= limit
    THEN [allowed |-> FALSE, err |-> FALSE, count |-> count]
    ELSE IF writeUp
         THEN [allowed |-> TRUE, err |-> FALSE, count |-> count + 1]
         ELSE [allowed |-> FALSE, err |-> TRUE, count |-> count]

\* CheckTenantRateLimit: (false, nil, err) on an error, (false, info, nil) on
\* a limit reached, (true, nil, nil) otherwise.
CheckTenantRateLimit(count, limit, readUp, writeUp) ==
    LET r == SlidingWindowCounter(count, limit, readUp, writeUp) IN
    [allowed |-> r.allowed, err |-> r.err, count |-> r.count,
     info |-> IF r.err \/ r.allowed THEN Nil ELSE <<limit>>]

\* The middleware on a request of user u for comment c.  On an error it logs
\* "rate limit check failed" and calls c.Next(); otherwise it reads
\* info.Limit, which panics on the nil info of an allowed request, and aborts
\* a request over the limit with status 429.  ok: c.Next() was called.
RateLimit(p, t, c, u, readUp, writeUp) ==
    LET r == CheckTenantRateLimit(rate.count, rate.limit, readUp, writeUp)
        new == Call(p, "RateLimit", "done", t, c, u, "")
    IN  /\ CanCall(p)
        /\ rate' = [rate EXCEPT !.count = r.count]
        /\ svc' = [svc EXCEPT ![p] =
              IF r.err
              THEN [new EXCEPT !.ok = TRUE, !.err = "rate limit check failed"]
              ELSE IF r.info = Nil
                   THEN [new EXCEPT !.err = "nil pointer dereference"]
                   ELSE [new EXCEPT !.err = "rate limit exceeded",
                                    !.ret = 429]]
        /\ UNCHANGED <<redis, lockc, comments, likes, tx, edits, cache, bus>>

\* The middleware has passed p's request on to its handler.
Admitted(p) == svc[p].op = "RateLimit" /\ svc[p].ok

(***************************************************************************)
(* The read cache: QueryHandler.handleGetCommentTree and                   *)
(* handleGetCommentByID (cache-aside), step 7 of LikeComment and the       *)
(* worker's cache invalidation.  cache is a set of entries                 *)
(* [key, data, seen]; seen tells which committed comments and reactions    *)
(* the store held when data was read.  All comments of the model belong to *)
(* one entity, which the keys leave out.                                   *)
(***************************************************************************)
\* fmt.Sprintf("comment_tree:%s:%s:%d:%d", TenantID, EntityID, Page, Limit)
TreeKey(t, page, limit) == <<"comment_tree", t, page, limit>>

\* fmt.Sprintf("comment_tree:%s:%s", tenantID, entityID)
TreeKeyOfEntity(t) == <<"comment_tree", t>>

\* fmt.Sprintf("comment:%s:%s", tenantID, commentID)
CommentKey(t, c) == <<"comment", t, c>>

\* fmt.Sprintf("likes:%s", commentID)
LikesKey(c) == <<"likes", c>>

\* cache.Get: the entries under key (none or one).
CacheGet(key) == {e \in cache : e.key = key}

\* cache.Del of each of the keys.
CacheDel(keys) == {e \in cache : e.key \notin keys}

SeenNow ==
    [comments |-> {c \in DOMAIN comments : Stored(c)},
     likes |-> {<<r.comment, r.user>> : r \in {x \in likes : x.xmin = 0}}]

\* SELECT ... WHERE tenant_id = $1 AND entity_id = $2 AND deleted_at IS NULL
\* ORDER BY created_at DESC LIMIT $3 OFFSET (page - 1) * limit; ids grow
\* with created_at.
TreePage(t, page, limit) ==
    LET rows == {c \in DOMAIN comments :
                    Stored(c) /\ comments[c].tenant = t /\ ~comments[c].deleted}
        rank(c) == Cardinality({x \in rows : x >= c})
        offset == (page - 1) * limit
    IN  {[id |-> c, like_count |-> comments[c].like_count,
          reply_count |-> comments[c].reply_count] :
            c \in {x \in rows : rank(x) > offset /\ rank(x) <= offset + limit}}

\* handleGetCommentTree: a hit returns the cached response; a miss reads
\* the store and caches the response for 5 minutes.
handleGetCommentTree(p, t, page, limit) ==
    LET key == TreeKey(t, page, limit)
        hit == CacheGet(key) # {}
    IN  /\ CanCall(p)
        /\ cache' = IF hit THEN cache
                    ELSE cache \cup {[key |-> key,
                                      data |-> TreePage(t, page, limit),
                                      seen |-> SeenNow]}
        /\ svc' = [svc EXCEPT ![p] =
                [Call(p, "GetCommentTree", "done", t, 0, 0, "")
                    EXCEPT !.found = hit, !.ok = TRUE]]
        /\ UNCHANGED <<redis, lockc, comments, likes, tx, edits, rate, bus>>

\* handleGetCommentByID: the same for one comment, ErrCommentNotFound if the
\* store has no such row.
handleGetCommentByID(p, t, c) ==
    LET key == CommentKey(t, c)
        hit == CacheGet(key) # {}
        row == Stored(c) /\ comments[c].tenant = t /\ ~comments[c].deleted
    IN  /\ CanCall(p)
        /\ cache' = IF hit \/ ~row THEN cache
                    ELSE cache \cup {[key |-> key,
                                      data |-> {[id |-> c,
                                         like_count |-> comments[c].like_count,
                                         reply_count |-> comments[c].reply_count]},
                                      seen |-> SeenNow]}
        /\ svc' = [svc EXCEPT ![p] =
                [Call(p, "GetCommentByID", "done", t, c, 0, "")
                    EXCEPT !.found = hit, !.ok = hit \/ row,
                           !.err = IF hit \/ row THEN ""
                                   ELSE "ErrCommentNotFound"]]
        /\ UNCHANGED <<redis, lockc, comments, likes, tx, edits, rate, bus>>

\* The TTL of an entry runs out.
CacheExpire ==
    /\ \E e \in cache : cache' = cache \ {e}
    /\ UNCHANGED <<redis, lockc, comments, likes, tx, svc, edits, rate, bus>>

\* The keys LikeComment deletes after its commit (step 7).
LikeCacheKeys(t, c) == {LikesKey(c), CommentKey(t, c)}

\* The end of LikeComment: after a commit, step 7 (s.cache.Del of the two
\* keys); then the deferred ReleaseLock.
LikeReturn(p) ==
    /\ LikeRelease(p)
    /\ cache' = IF svc[p].ok THEN CacheDel(LikeCacheKeys(svc[p].t, svc[p].c))
                ELSE cache

\* The worker on the CommentCreated event of comment c, some time after the
\* commit: redis.Del of the tree key of the entity and of the parent's key.
HandleCommentCreatedEvent(c) ==
    /\ Stored(c)
    /\ cache' = CacheDel({TreeKeyOfEntity(comments[c].tenant),
                          CommentKey(comments[c].tenant, comments[c].parent)})
    /\ UNCHANGED <<redis, lockc, comments, likes, tx, svc, edits, rate, bus>>

(***************************************************************************)
(* handleGetCommentTree with the time of the cache.  The handler reads the *)
(* cache and, on a miss, the store; the goroutine of step 10 writes the    *)
(* response into the cache later.  An entry carries its age in minutes,    *)
(* and late: the comments whose CommentCreated event was handled between   *)
(* the read of the store and the write of the entry.                       *)
(***************************************************************************)
CacheTTL == 5           \* h.cache.Set(..., 5*time.Minute)

MutExpired(e) == e.age > CacheTTL

\* Redis drops a key when its TTL has run out.
Expired(e) == e.age >= CacheTTL

\* Steps 1-9: a hit returns the cached response, a miss the response built
\* from the store, with the write of step 10 left to its goroutine.
GetTree(p, t, page, limit) ==
    LET key == TreeKey(t, page, limit)
        hit == CacheGet(key) # {}
        view == IF hit THEN CHOOSE e \in CacheGet(key) : TRUE
                ELSE [key |-> key, data |-> TreePage(t, page, limit),
                      seen |-> SeenNow, age |-> 0, late |-> {}]
    IN  /\ CanCall(p)
        /\ svc' = [svc EXCEPT ![p] =
                [[view |-> view]
                    @@ Call(p, "GetCommentTree",
                            IF hit THEN "done" ELSE "set", t, 0, 0, "")
                    EXCEPT !.found = hit, !.ok = TRUE]]
        /\ UNCHANGED <<redis, lockc, dbVars, otherVars>>

\* Step 10, in its goroutine: h.cache.Set(cacheKey, responseJSON, 5 minutes).
TreeSet(p) ==
    /\ svc[p].op = "GetCommentTree" /\ svc[p].pc = "set"
    /\ cache' = CacheDel({svc[p].view.key}) \cup {svc[p].view}
    /\ svc' = Goto(p, "done")
    /\ UNCHANGED <<redis, lockc, dbVars, edits, rate, bus>>

\* A minute passes.
Minute ==
    /\ cache' = {e \in {[x EXCEPT !.age = @ + 1] : x \in cache} : ~Expired(e)}
    /\ UNCHANGED <<redis, lockc, dbVars, svc, edits, rate, bus>>

\* HandleCommentCreatedEvent(c) while responses wait to be written.
CommentCreatedWorker(c) ==
    /\ Stored(c)
    /\ cache' = CacheDel({TreeKeyOfEntity(comments[c].tenant),
                          CommentKey(comments[c].tenant, comments[c].parent)})
    /\ svc' = [p \in Procs |->
                IF svc[p].op = "GetCommentTree" /\ svc[p].pc = "set"
                THEN [svc[p] EXCEPT !.view.late = @ \cup {c}]
                ELSE svc[p]]
    /\ UNCHANGED <<redis, lockc, dbVars, edits, rate, bus>>

(***************************************************************************)
(* buildTree (internal/application/comment/query_handler.go).  A           *)
(* CommentReadModel is a value: append(roots, comments[i]) and             *)
(* append(parent.Replies, comments[i]) store a copy of the row with the    *)
(* Replies it has at that moment, while commentMap points at the rows of   *)
(* the slice itself.                                                       *)
(***************************************************************************)
MaxRows == 3            \* largest id of a row in a list

ReadModel(id, parent) == [ID |-> id, ParentID |-> parent, Replies |-> <<>>]

\* commentMap[id]: the last row of the slice with that ID, if any.
CommentMap(list, id) ==
    LET js == {j \in 1..Len(list) : list[j].ID = id}
    IN  IF js = {} THEN 0 ELSE CHOOSE j \in js : \A k \in js : k <= j

\* The second loop from row i on.
RECURSIVE BuildFrom(_, _, _)
BuildFrom(list, roots, i) ==
    IF i > Len(list) THEN roots
    ELSE IF list[i].ParentID = NoParent
         THEN BuildFrom(list, Append(roots, list[i]), i + 1)
         ELSE LET parent == CommentMap(list, list[i].ParentID)
              IN  IF parent = 0 THEN BuildFrom(list, roots, i + 1)
                  ELSE BuildFrom([list EXCEPT ![parent].Replies =
                                        Append(@, list[i])],
                                 roots, i + 1)

buildTree(list) == BuildFrom(list, <<>>, 1)

\* A caller builds the tree of a list of rows.
CallBuildTree(p, list) ==
    /\ CanCall(p)
    /\ svc' = [svc EXCEPT ![p] =
            [op |-> "buildTree", pc |-> "done", n |-> svc[p].n + 1,
             list |-> list, out |-> buildTree(list)]]
    /\ UNCHANGED <<redis, lockc, dbVars, otherVars>>

(***************************************************************************)
(* Step 6.8 of handleCreateComment: the CommentCreated event, handed to a  *)
(* goroutine that calls h.eventBus.Publish and logs its error.             *)
(***************************************************************************)
MutPublishAfter(p) == svc[p].pc = "insert"

\* The step of the handler that step 6.8 follows: tx.Commit() without error.
PublishAfter(p) == svc[p].pc = "commit"

\* events.CommentCreatedEvent of p's call; call tells whose call it was.
CommentCreatedEvent(p) ==
    [EventType |-> "CommentCreated", CommentID |-> svc[p].c,
     ParentID |-> svc[p].parent, call |-> <<p, svc[p].n>>, sent |-> "pending"]

\* The goroutine that p's step starts, if it starts one.
Go(p) ==
    /\ bus' = IF svc[p].op = "CreateComment" /\ PublishAfter(p)
              THEN bus \cup {CommentCreatedEvent(p)} ELSE bus
    /\ UNCHANGED <<edits, rate, cache>>

\* The goroutine: h.eventBus.Publish(ctx, event), with the bus up or not.
Publish(e, up) ==
    /\ e \in bus /\ e.sent = "pending"
    /\ bus' = (bus \ {e})
                \cup {[e EXCEPT !.sent = IF up THEN "published" ELSE "failed"]}
    /\ UNCHANGED <<redis, lockc, dbVars, svc, edits, rate, cache>>

(***************************************************************************)
(* CommandHandler.Handle for a CreateCommentCommand.  A content is known   *)
(* by its length in characters and in bytes; len(c.Content) is the number  *)
(* of bytes.                                                               *)
(***************************************************************************)
maxContentLength == 10000

MutValidate(content) == ""

\* CreateCommentCommand.Validate, for a command with tenant, entity and
\* author filled in.
Validate(content) ==
    IF content.bytes < 1 \/ content.bytes > maxContentLength
    THEN "ErrInvalidContentLength" ELSE ""

\* Handle: cmd.Validate(), then handleCreateComment.
Handle(p, t, parent, content) ==
    IF Validate(content) # ""
    THEN /\ CanCall(p)
         /\ svc' = [svc EXCEPT ![p] =
                [Call(p, "CreateComment", "done", t, 0, 0, "")
                    EXCEPT !.parent = parent, !.err = Validate(content)]]
         /\ UNCHANGED <<redis, lockc, dbVars>>
    ELSE CreateComment(p, t, parent)

(***************************************************************************)
(* RedLock.ExtendLock.  Time is not modelled: what a call does to the      *)
(* expiry of the keys is kept with the call.                               *)
(***************************************************************************)
\* The script of ExtendLock on one node: PEXPIRE only if GET == value.  The
\* result says whether the expiry of the key was changed.
ExtendScript(old, value) == old = value

\* The holder of a lock calls ExtendLock(lock, additionalTTL).  extended: the
\* nodes on which the call has changed the expiry of the key.
ExtendLock(p) ==
    /\ lockc[p].pc = "held"
    /\ CanCall(p)
    /\ svc' = [svc EXCEPT ![p] =
            [j |-> 1, extended |-> {}] @@ Call(p, "ExtendLock", "extend", 0, 0, 0, "")]
    /\ UNCHANGED <<redis, lockc>>

\* ExtendLock, one iteration of its loop: the script on node j, its result
\* dropped; after the last node, return nil.
ExtendOnNode(p) ==
    LET a == svc[p]
        k == LockKey(lockc[p].resource)
        ran == ExtendScript(redis[a.j][k], lockc[p].value)
        b == [a EXCEPT !.extended = IF ran THEN @ \cup {a.j} ELSE @]
    IN  /\ a.op = "ExtendLock" /\ a.pc = "extend"
        /\ svc' = [svc EXCEPT ![p] =
                IF a.j < NumNodes THEN [b EXCEPT !.j = a.j + 1]
                ELSE [b EXCEPT !.pc = "done", !.ok = TRUE]]
        /\ UNCHANGED <<redis, lockc>>

(***************************************************************************)
(* pkg/utils: Paginate.  A Go int is a two's complement word of IntBytes   *)
(* bytes whose arithmetic wraps around; it is kept as the sequence of its  *)
(* bytes, least significant first.                                         *)
(***************************************************************************)
IntBytes == 8           \* int on a 64-bit build
Byte == 256

RECURSIVE Bytes(_, _)
\* The k low bytes of the natural number n.
Bytes(n, k) ==
    IF k = 0 THEN <<>> ELSE <<n % Byte>> \o Bytes(n \div Byte, k - 1)

RECURSIVE AddCarry(_, _, _)
\* a + b + carry, wrapping at the width of a.
AddCarry(a, b, carry) ==
    IF a = <<>> THEN <<>>
    ELSE LET sum == Head(a) + Head(b) + carry
         IN  <<sum % Byte>> \o AddCarry(Tail(a), Tail(b), sum \div Byte)

Complement(a) == [i \in 1..Len(a) |-> Byte - 1 - a[i]]

\* -a
Negate(a) == AddCarry(Complement(a), Bytes(0, Len(a)), 1)

\* a - b
Minus(a, b) == AddCarry(a, Complement(b), 1)

\* The int with value n, for a small n.
GoInt(n) == IF n >= 0 THEN Bytes(n, IntBytes) ELSE Negate(Bytes(-n, IntBytes))

MaxInt == [i \in 1..IntBytes |-> IF i = IntBytes THEN Byte \div 2 - 1 ELSE Byte - 1]
MinInt == [i \in 1..IntBytes |-> IF i = IntBytes THEN Byte \div 2 ELSE 0]

Negative(a) == a[Len(a)] >= Byte \div 2

RECURSIVE Below(_, _)
\* a < b as unsigned words.
Below(a, b) ==
    IF a = <<>> THEN FALSE
    ELSE LET n == Len(a)
         IN  IF a[n] # b[n] THEN a[n] < b[n]
             ELSE Below(SubSeq(a, 1, n - 1), SubSeq(b, 1, n - 1))

\* a < b as ints.
Less(a, b) ==
    IF Negative(a) # Negative(b) THEN Negative(a) ELSE Below(a, b)

RECURSIVE Scale(_, _, _)
\* a * d + carry for one byte d, wrapping at the width of a.
Scale(a, d, carry) ==
    IF a = <<>> THEN <<>>
    ELSE LET prod == Head(a) * d + carry
         IN  <<prod % Byte>> \o Scale(Tail(a), d, prod \div Byte)

RECURSIVE Times(_, _)
\* a * b, wrapping at the width of a.
Times(a, b) ==
    IF b = <<>> THEN Bytes(0, Len(a))
    ELSE AddCarry(Scale(a, Head(b), 0),
                  <<0>> \o SubSeq(Times(a, Tail(b)), 1, Len(a) - 1), 0)

\* func Paginate(page, limit int) (offset int, actualLimit int)
Paginate(page, limit) ==
    LET page1 == IF Less(page, GoInt(1)) THEN GoInt(1) ELSE page
        limit1 == IF Less(limit, GoInt(1)) THEN GoInt(20) ELSE limit
        limit2 == IF Less(GoInt(100), limit1) THEN GoInt(100) ELSE limit1
    IN  [offset |-> Times(Minus(page1, GoInt(1)), limit2),
         actualLimit |-> limit2]

\* A caller paginates a listing.
CallPaginate(p, page, limit) ==
    /\ CanCall(p)
    /\ svc' = [svc EXCEPT ![p] =
            [op |-> "Paginate", pc |-> "done", n |-> svc[p].n + 1,
             page |-> page, limit |-> limit, out |-> Paginate(page, limit)]]
    /\ UNCHANGED <<redis, lockc, dbVars, otherVars>>

(***************************************************************************)
(* SpecLock: callers contending for one resource through RedLock.          *)
(***************************************************************************)
LockResources == {<<"r">>}
LockSpecKeys == {LockKey(r) : r \in LockResources}

InitLock ==
    /\ redis = [n \in Nodes |-> [k \in LockSpecKeys |-> Nil]]
    /\ lockc = [p \in Procs |-> IdleCall]
    /\ comments = <<>>
    /\ likes = {}
    /\ tx = [p \in Procs |-> NoTx]
    /\ svc = [p \in Procs |-> IdleSvc]
    /\ NoOthers

NextLock ==
    \/ \E p \in Procs, r \in LockResources : AcquireLock(p, r)
          /\ UNCHANGED <<dbVars, svc, otherVars>>
    \/ \E p \in Procs : AcquireOnNode(p)
          /\ UNCHANGED <<dbVars, svc, otherVars>>
    \/ \E p \in Procs : ReleaseOnNode(p)
          /\ UNCHANGED <<dbVars, svc, otherVars>>
    \/ \E p \in Procs : ReleaseLock(p)
          /\ UNCHANGED <<dbVars, svc, otherVars>>
    \/ \E p \in Procs : AcquireFailed(p)
          /\ UNCHANGED <<dbVars, svc, otherVars>>
    \/ \E n \in Nodes, k \in LockSpecKeys : Expire(n, k)
          /\ UNCHANGED <<dbVars, svc, otherVars>>

SpecLock == InitLock /\ [][NextLock]_vars

(***************************************************************************)
(* SpecReact: callers liking and unliking the comments of one tenant.      *)
(***************************************************************************)
NumUsers == 2

Users == 1..NumUsers
Tenant == 1
LikedComments == {1}
Reactions == {"LIKE", "LOVE"}
ReactKeys == {LockKey(LikeResource(c, u)) : c \in LikedComments, u \in Users}

InitReact ==
    /\ redis = [n \in Nodes |-> [k \in ReactKeys |-> Nil]]
    /\ lockc = [p \in Procs |-> IdleCall]
    /\ comments = [c \in LikedComments |-> CommentRow(Tenant, NoParent, 0, <<>>)]
    /\ likes = {}
    /\ tx = [p \in Procs |-> NoTx]
    /\ svc = [p \in Procs |-> IdleSvc]
    /\ NoOthers

NextReact ==
    \/ \E p \in Procs, c \in LikedComments, u \in Users :
          \/ LikeComment(p, Tenant, c, u) /\ UNCHANGED otherVars
          \/ \E k \in Reactions : add_like(p, Tenant, c, u, k) /\ UNCHANGED otherVars
          \/ remove_like(p, Tenant, c, u) /\ UNCHANGED otherVars
    \/ \E p \in Procs :
          \/ LikeBegin(p) /\ UNCHANGED otherVars
          \/ LikeCheck(p) /\ UNCHANGED otherVars
          \/ LikeInsert(p) /\ UNCHANGED otherVars
          \/ LikeUpdate(p) /\ UNCHANGED otherVars
          \/ LikeCommit(p) /\ UNCHANGED otherVars
          \/ LikeRollback(p) /\ UNCHANGED otherVars
          \/ LikeRelease(p) /\ UNCHANGED otherVars
          \/ AddLikeUpdate(p) /\ UNCHANGED otherVars
          \/ ReadLikeCount(p) /\ UNCHANGED otherVars
          \/ AddLikeInsert(p) /\ UNCHANGED otherVars
          \/ UpdateLikeCount(p) /\ UNCHANGED otherVars
          \/ SqlCommit(p) /\ UNCHANGED otherVars
          \/ SqlAbort(p) /\ UNCHANGED otherVars
    \/ \E n \in Nodes, k \in ReactKeys : Expire(n, k)
          /\ UNCHANGED <<dbVars, svc, otherVars>>

SpecReact == InitReact /\ [][NextReact]_vars

(***************************************************************************)
(* SpecLikeRace: every caller adds one reaction, each for a user of its    *)
(* own, to a comment that has none.                                        *)
(***************************************************************************)
RacedComment == 1
RaceKeys == {LockKey(LikeResource(RacedComment, u)) : u \in Procs}

InitLikeRace ==
    /\ redis = [n \in Nodes |-> [k \in RaceKeys |-> Nil]]
    /\ lockc = [p \in Procs |-> IdleCall]
    /\ comments = [c \in {RacedComment} |-> CommentRow(Tenant, NoParent, 0, <<>>)]
    /\ likes = {}
    /\ tx = [p \in Procs |-> NoTx]
    /\ svc = [p \in Procs |-> IdleSvc]
    /\ NoOthers

NextLikeRace ==
    \/ \E p \in Procs :
          \/ /\ svc[p].pc = "idle"
             /\ LikeComment(p, Tenant, RacedComment, p) /\ UNCHANGED otherVars
          \/ /\ svc[p].pc = "idle"
             /\ \E k \in Reactions : add_like(p, Tenant, RacedComment, p, k)
             /\ UNCHANGED otherVars
    \/ \E p \in Procs :
          \/ LikeBegin(p) /\ UNCHANGED otherVars
          \/ LikeCheck(p) /\ UNCHANGED otherVars
          \/ LikeInsert(p) /\ UNCHANGED otherVars
          \/ LikeUpdate(p) /\ UNCHANGED otherVars
          \/ LikeCommit(p) /\ UNCHANGED otherVars
          \/ LikeRollback(p) /\ UNCHANGED otherVars
          \/ LikeRelease(p) /\ UNCHANGED otherVars
          \/ AddLikeInsert(p) /\ UNCHANGED otherVars
          \/ UpdateLikeCount(p) /\ UNCHANGED otherVars
          \/ SqlCommit(p) /\ UNCHANGED otherVars
    \/ \E n \in Nodes, k \in RaceKeys : Expire(n, k)
          /\ UNCHANGED <<dbVars, svc, otherVars>>

SpecLikeRace == InitLikeRace /\ [][NextLikeRace]_vars

(***************************************************************************)
(* SpecTree: callers replying to and deleting the comments of a thread     *)
(* that starts with one root comment.                                      *)
(***************************************************************************)
TreeKeys == {LockKey(ReplyResource(c)) : c \in 1..(MaxOps + 1)}

InitTree ==
    /\ redis = [n \in Nodes |-> [k \in TreeKeys |-> Nil]]
    /\ lockc = [p \in Procs |-> IdleCall]
    /\ comments = [c \in {1} |-> CommentRow(Tenant, NoParent, 0, <<>>)]
    /\ likes = {}
    /\ tx = [p \in Procs |-> NoTx]
    /\ svc = [p \in Procs |-> IdleSvc]
    /\ NoOthers

TreeSteps(p) ==
    \/ CreateBegin(p) /\ UNCHANGED otherVars
    \/ CreateParent(p) /\ UNCHANGED otherVars
    \/ CreateReply(p) /\ UNCHANGED otherVars
    \/ CreateInsert(p) /\ UNCHANGED otherVars
    \/ CreateCommit(p) /\ UNCHANGED otherVars
    \/ CreateRollback(p) /\ UNCHANGED otherVars
    \/ CreateRelease(p) /\ UNCHANGED otherVars

NextTree ==
    \/ \E p \in Procs :
          \/ \E parent \in DOMAIN comments \cup {NoParent} :
                CreateComment(p, Tenant, parent) /\ UNCHANGED otherVars
          \/ \E c \in DOMAIN comments, canDelete \in BOOLEAN :
                DeleteComment(p, Tenant, c, canDelete) /\ UNCHANGED otherVars
          \/ \E c \in DOMAIN comments :
                soft_delete_comment_tree(p, c) /\ UNCHANGED otherVars
          \/ TreeSteps(p)
          \/ DeleteMark(p) /\ UNCHANGED otherVars
          \/ DeleteCommit(p) /\ UNCHANGED otherVars
          \/ DeleteRollback(p) /\ UNCHANGED otherVars
    \/ \E n \in Nodes, k \in TreeKeys : Expire(n, k)
          /\ UNCHANGED <<dbVars, svc, otherVars>>

SpecTree == InitTree /\ [][NextTree]_vars

(***************************************************************************)
(* SpecDepth: callers replying at the bottom of a thread that is already   *)
(* max_nesting_depth deep.                                                 *)
(***************************************************************************)
RECURSIVE ChainPath(_)
ChainPath(c) ==
    IF c = 1 THEN <<>> ELSE ReplyPath(ChainPath(c - 1), c - 1)

ChainRow(c) ==
    [CommentRow(Tenant, c - 1, c - 1, ChainPath(c))
        EXCEPT !.reply_count = IF c = max_nesting_depth + 1 THEN 0 ELSE 1]

DeepComments == {c \in DOMAIN comments : comments[c].depth >= max_nesting_depth}

DepthKeys ==
    {LockKey(ReplyResource(c)) :
        c \in (max_nesting_depth + 1)..(max_nesting_depth + MaxOps + 1)}

InitDepth ==
    /\ redis = [n \in Nodes |-> [k \in DepthKeys |-> Nil]]
    /\ lockc = [p \in Procs |-> IdleCall]
    /\ comments = [c \in 1..(max_nesting_depth + 1) |-> ChainRow(c)]
    /\ likes = {}
    /\ tx = [p \in Procs |-> NoTx]
    /\ svc = [p \in Procs |-> IdleSvc]
    /\ NoOthers

NextDepth ==
    \/ \E p \in Procs :
          \/ \E parent \in DeepComments : CreateComment(p, Tenant, parent) /\ UNCHANGED otherVars
          \/ TreeSteps(p)
    \/ \E n \in Nodes, k \in DepthKeys : Expire(n, k)
          /\ UNCHANGED <<dbVars, svc, otherVars>>

SpecDepth == InitDepth /\ [][NextDepth]_vars

(***************************************************************************)
(* SpecRate: one tenant's bucket under a run of AllowRequest calls.        *)
(***************************************************************************)
InitRate ==
    /\ redis = [n \in Nodes |-> <<>>]
    /\ lockc = [p \in Procs |-> IdleCall]
    /\ comments = <<>>
    /\ likes = {}
    /\ tx = [p \in Procs |-> NoTx]
    /\ svc = [p \in Procs |-> IdleSvc]
    /\ edits = {}
    /\ cache = {}
    /\ \E capacity \in 1..MaxCapacity, refillRate \in 1..MaxRate,
          clock \in 0..(Resolution - 1) :
          rate = NewTokenBucketLimiter(capacity, refillRate, clock)
    /\ bus = {}

NextRate == AllowRequest \/ Tick \/ BucketExpire

SpecRate == InitRate /\ [][NextRate]_vars

(***************************************************************************)
(* SpecAllowRace: concurrent AllowRequest calls on one tenant's bucket.    *)
(***************************************************************************)
NextAllowRace ==
    \/ \E p \in Procs : AllowNow(p)
    \/ \E p \in Procs : AllowEval(p)
    \/ Tick

SpecAllowRace == InitRate /\ [][NextAllowRace]_vars

(***************************************************************************)
(* SpecParent: replies to a parent that is there, that belongs to another  *)
(* tenant, that is soft-deleted or that does not exist, while the parents  *)
(* are being soft-deleted.                                                 *)
(***************************************************************************)
OtherTenant == Tenant + 1
NoSuchComment == MaxOps + 4

ParentKeys == {LockKey(ReplyResource(c)) : c \in 1..NoSuchComment}

InitParent ==
    /\ redis = [n \in Nodes |-> [k \in ParentKeys |-> Nil]]
    /\ lockc = [p \in Procs |-> IdleCall]
    /\ comments = <<CommentRow(Tenant, NoParent, 0, <<>>),
                    CommentRow(OtherTenant, NoParent, 0, <<>>),
                    [CommentRow(Tenant, NoParent, 0, <<>>)
                        EXCEPT !.deleted = TRUE, !.deleted_at = 1,
                               !.status = "DELETED"]>>
    /\ likes = {}
    /\ tx = [p \in Procs |-> NoTx]
    /\ svc = [p \in Procs |-> IdleSvc]
    /\ NoOthers

NextParent ==
    \/ \E p \in Procs :
          \/ \E parent \in DOMAIN comments \cup {NoSuchComment} :
                CreateComment(p, Tenant, parent) /\ UNCHANGED otherVars
          \/ \E c \in DOMAIN comments : DeleteComment(p, Tenant, c, TRUE) /\ UNCHANGED otherVars
          \/ TreeSteps(p)
          \/ DeleteMark(p) /\ UNCHANGED otherVars
          \/ DeleteCommit(p) /\ UNCHANGED otherVars
          \/ DeleteRollback(p) /\ UNCHANGED otherVars
    \/ \E n \in Nodes, k \in ParentKeys : Expire(n, k)
          /\ UNCHANGED <<dbVars, svc, otherVars>>

SpecParent == InitParent /\ [][NextParent]_vars

(***************************************************************************)
(* SpecPurge: soft deletes, hard deletes and add_like on a comment, its    *)
(* reply, their reactions and their edit history.                          *)
(***************************************************************************)
EditRow(id, t, c) == [id |-> id, tenant |-> t, comment |-> c, xmax |-> 0]

InitPurge ==
    /\ redis = [n \in Nodes |-> [k \in {} |-> Nil]]
    /\ lockc = [p \in Procs |-> IdleCall]
    /\ comments = <<[CommentRow(Tenant, NoParent, 0, <<>>)
                        EXCEPT !.like_count = 1, !.reply_count = 1],
                    [CommentRow(Tenant, 1, 1, <<1>>)
                        EXCEPT !.like_count = 1]>>
    /\ likes = {[id |-> c, tenant |-> Tenant, comment |-> c, user |-> 1,
                 reaction |-> "LIKE", xmin |-> 0, xmax |-> 0] : c \in 1..2}
    /\ tx = [p \in Procs |-> NoTx]
    /\ svc = [p \in Procs |-> IdleSvc]
    /\ edits = {EditRow(c, Tenant, c) : c \in 1..2}
    /\ rate = Nil /\ cache = {}
    /\ bus = {}

NextPurge ==
    \/ \E p \in Procs :
          \/ \E c \in DOMAIN comments, t \in {Tenant, OtherTenant},
                   isAdmin \in BOOLEAN :
                HardDeleteComment(p, t, c, isAdmin) /\ UNCHANGED <<rate, cache, bus>>
          \/ \E c \in DOMAIN comments : hard_delete_comment(p, c) /\ UNCHANGED <<rate, cache, bus>>
          \/ \E c \in DOMAIN comments : DeleteComment(p, Tenant, c, TRUE) /\ UNCHANGED otherVars
          \/ \E c \in DOMAIN comments : soft_delete_comment_tree(p, c) /\ UNCHANGED otherVars
          \/ \E c \in DOMAIN comments, u \in Users, k \in Reactions :
                add_like(p, Tenant, c, u, k) /\ UNCHANGED otherVars
          \/ HardDeleteLikes(p) /\ UNCHANGED <<rate, cache, bus>>
          \/ \E failed \in BOOLEAN : HardDeleteEdits(p, failed) /\ UNCHANGED <<rate, cache, bus>>
          \/ HardDeleteRow(p) /\ UNCHANGED <<rate, cache, bus>>
          \/ HardDeleteCommit(p) /\ UNCHANGED <<rate, cache, bus>>
          \/ HardDeleteRollback(p) /\ UNCHANGED <<rate, cache, bus>>
          \/ DeleteMark(p) /\ UNCHANGED otherVars
          \/ DeleteCommit(p) /\ UNCHANGED otherVars
          \/ DeleteRollback(p) /\ UNCHANGED otherVars
          \/ AddLikeUpdate(p) /\ UNCHANGED otherVars
          \/ ReadLikeCount(p) /\ UNCHANGED otherVars
          \/ AddLikeInsert(p) /\ UNCHANGED otherVars
          \/ UpdateLikeCount(p) /\ UNCHANGED otherVars
          \/ SqlCommit(p) /\ UNCHANGED otherVars
          \/ SqlAbort(p) /\ UNCHANGED otherVars

SpecPurge == InitPurge /\ [][NextPurge]_vars

(***************************************************************************)
(* SpecLoss: callers react to one comment for one user and reply to it,    *)
(* under a rate limiter, while lock keys run out and the bucket is lost.   *)
(***************************************************************************)
LossUser == 1
LossKeys == {LockKey(LikeResource(RacedComment, LossUser)),
             LockKey(ReplyResource(RacedComment))}

InitLoss ==
    /\ redis = [n \in Nodes |-> [k \in LossKeys |-> Nil]]
    /\ lockc = [p \in Procs |-> IdleCall]
    /\ comments = <<CommentRow(Tenant, NoParent, 0, <<>>)>>
    /\ likes = {}
    /\ tx = [p \in Procs |-> NoTx]
    /\ svc = [p \in Procs |-> IdleSvc]
    /\ edits = {} /\ cache = {}
    /\ rate = NewTokenBucketLimiter(1, 1, 0)
    /\ bus = {}

NextLoss ==
    \/ \E p \in Procs :
          \/ LikeComment(p, Tenant, RacedComment, LossUser)
                /\ UNCHANGED otherVars
          \/ CreateComment(p, Tenant, RacedComment) /\ UNCHANGED otherVars
          \/ LikeBegin(p) /\ UNCHANGED otherVars
          \/ LikeCheck(p) /\ UNCHANGED otherVars
          \/ LikeInsert(p) /\ UNCHANGED otherVars
          \/ LikeUpdate(p) /\ UNCHANGED otherVars
          \/ LikeCommit(p) /\ UNCHANGED otherVars
          \/ LikeRollback(p) /\ UNCHANGED otherVars
          \/ LikeRelease(p) /\ UNCHANGED otherVars
          \/ TreeSteps(p)
    \/ \E n \in Nodes, k \in LossKeys : Expire(n, k)
          /\ UNCHANGED <<dbVars, svc, otherVars>>
    \/ Len(rate.log) < NumProcs /\ AllowRequest
    \/ BucketLost

SpecLoss == InitLoss /\ [][NextLoss]_vars

(***************************************************************************)
(* SpecAdmit: requests to react to a comment pass the RateLimit middleware *)
(* and reach LikeComment, with Redis reachable or not at each of them.     *)
(***************************************************************************)
WindowLimit == 2

AdmitKeys == {LockKey(LikeResource(RacedComment, u)) : u \in Users}

InitAdmit ==
    /\ redis = [n \in Nodes |-> [k \in AdmitKeys |-> Nil]]
    /\ lockc = [p \in Procs |-> IdleCall]
    /\ comments = <<[CommentRow(Tenant, NoParent, 0, <<>>)
                        EXCEPT !.like_count = 1]>>
    /\ likes = {[id |-> 1, tenant |-> Tenant, comment |-> RacedComment,
                 user |-> LossUser, reaction |-> "LIKE",
                 xmin |-> 0, xmax |-> 0]}
    /\ tx = [p \in Procs |-> NoTx]
    /\ svc = [p \in Procs |-> IdleSvc]
    /\ edits = {} /\ cache = {}
    /\ rate = [count |-> 0, limit |-> WindowLimit]
    /\ bus = {}

NextAdmit ==
    \/ \E p \in Procs, u \in Users, readUp \in BOOLEAN, writeUp \in BOOLEAN :
          /\ ~Admitted(p)
          /\ RateLimit(p, Tenant, RacedComment, u, readUp, writeUp)
    \/ \E p \in Procs, up \in SUBSET Nodes :
          /\ Admitted(p)
          /\ LikeCommentOn(p, svc[p].t, svc[p].c, svc[p].u, up)
          /\ UNCHANGED otherVars
    \/ \E p \in Procs :
          \/ LikeBegin(p) /\ UNCHANGED otherVars
          \/ LikeCheck(p) /\ UNCHANGED otherVars
          \/ LikeInsert(p) /\ UNCHANGED otherVars
          \/ LikeUpdate(p) /\ UNCHANGED otherVars
          \/ LikeCommit(p) /\ UNCHANGED otherVars
          \/ LikeRollback(p) /\ UNCHANGED otherVars
          \/ LikeRelease(p) /\ UNCHANGED otherVars
    \/ \E n \in Nodes, k \in AdmitKeys : Expire(n, k)
          /\ UNCHANGED <<dbVars, svc, otherVars>>

SpecAdmit == InitAdmit /\ [][NextAdmit]_vars

(***************************************************************************)
(* SpecCache: readers of the tree and of single comments with callers      *)
(* that react to a comment and add comments.                               *)
(***************************************************************************)
MaxPage == 2
MaxLimit == 2

CacheKeys == {LockKey(LikeResource(RacedComment, LossUser)),
              LockKey(ReplyResource(RacedComment))}

InitCache ==
    /\ redis = [n \in Nodes |-> [k \in CacheKeys |-> Nil]]
    /\ lockc = [p \in Procs |-> IdleCall]
    /\ comments = <<CommentRow(Tenant, NoParent, 0, <<>>)>>
    /\ likes = {}
    /\ tx = [p \in Procs |-> NoTx]
    /\ svc = [p \in Procs |-> IdleSvc]
    /\ edits = {} /\ rate = Nil
    /\ cache = {}
    /\ bus = {}

NextCache ==
    \/ \E p \in Procs :
          \/ \E page \in 1..MaxPage, limit \in 1..MaxLimit :
                handleGetCommentTree(p, Tenant, page, limit)
          \/ handleGetCommentByID(p, Tenant, RacedComment)
          \/ LikeComment(p, Tenant, RacedComment, LossUser)
                /\ UNCHANGED otherVars
          \/ \E parent \in {NoParent, RacedComment} :
                CreateComment(p, Tenant, parent) /\ UNCHANGED otherVars
          \/ LikeBegin(p) /\ UNCHANGED otherVars
          \/ LikeCheck(p) /\ UNCHANGED otherVars
          \/ LikeInsert(p) /\ UNCHANGED otherVars
          \/ LikeUpdate(p) /\ UNCHANGED otherVars
          \/ LikeCommit(p) /\ UNCHANGED otherVars
          \/ LikeRollback(p) /\ UNCHANGED otherVars
          \/ LikeReturn(p) /\ UNCHANGED <<edits, rate, bus>>
          \/ TreeSteps(p)
    \/ \E c \in DOMAIN comments : HandleCommentCreatedEvent(c)
    \/ CacheExpire

SpecCache == InitCache /\ [][NextCache]_vars

(***************************************************************************)
(* SpecStale: readers of one page of the tree, callers that add root       *)
(* comments, the worker and the clock of the cache.                        *)
(***************************************************************************)
NextStale ==
    \/ \E p \in Procs : GetTree(p, Tenant, 1, MaxLimit)
    \/ \E p \in Procs : TreeSet(p)
    \/ \E p \in Procs, parent \in {NoParent, RacedComment} :
          CreateComment(p, Tenant, parent) /\ UNCHANGED otherVars
    \/ \E p \in Procs : TreeSteps(p)
    \/ \E c \in DOMAIN comments : CommentCreatedWorker(c)
    \/ \E n \in Nodes, k \in CacheKeys : Expire(n, k)
          /\ UNCHANGED <<dbVars, svc, otherVars>>
    \/ Minute

SpecStale == InitCache /\ [][NextStale]_vars

(***************************************************************************)
(* SpecBuild: callers build trees from lists of up to MaxRows rows, each   *)
(* row a root or a reply to a row with a smaller id, in any order.         *)
(***************************************************************************)
\* The lists of distinct ids out of ids.
RECURSIVE Orders(_)
Orders(ids) ==
    {<<>>} \cup UNION {{<<c>> \o rest : rest \in Orders(ids \ {c})} : c \in ids}

\* The parent of each row: none, or a row created before it.
Threads == {f \in [1..MaxRows -> 0..MaxRows] : \A c \in 1..MaxRows : f[c] < c}

RowLists ==
    {[i \in 1..Len(o) |-> ReadModel(o[i], f[o[i]])] :
        o \in Orders(1..MaxRows), f \in Threads}

InitBuild ==
    /\ redis = [n \in Nodes |-> <<>>]
    /\ lockc = [p \in Procs |-> IdleCall]
    /\ comments = <<>>
    /\ likes = {}
    /\ tx = [p \in Procs |-> NoTx]
    /\ svc = [p \in Procs |-> IdleSvc]
    /\ NoOthers

NextBuild == \E p \in Procs, list \in RowLists : CallBuildTree(p, list)

SpecBuild == InitBuild /\ [][NextBuild]_vars

(***************************************************************************)
(* SpecEvents: callers add root comments and replies to comments that are  *)
(* there or not, with the events of their commits on the way to the bus.   *)
(***************************************************************************)
NextEvents ==
    \/ \E p \in Procs, parent \in DOMAIN comments \cup {NoParent} :
          CreateComment(p, Tenant, parent) /\ UNCHANGED otherVars
    \/ \E p \in Procs :
          \/ CreateBegin(p) /\ Go(p)
          \/ CreateParent(p) /\ Go(p)
          \/ CreateReply(p) /\ Go(p)
          \/ CreateInsert(p) /\ Go(p)
          \/ CreateCommit(p) /\ Go(p)
          \/ CreateRollback(p) /\ Go(p)
          \/ CreateRelease(p) /\ Go(p)
    \/ \E up \in BOOLEAN : \E e \in bus : Publish(e, up)

SpecEvents == InitParent /\ [][NextEvents]_vars

(***************************************************************************)
(* SpecValidate: callers send CreateComment commands with contents of      *)
(* every kind of length, for root comments and for replies.                *)
(***************************************************************************)
Contents ==
    {[chars |-> 0, bytes |-> 0], [chars |-> 1, bytes |-> 1],
     [chars |-> 1, bytes |-> 4],
     [chars |-> maxContentLength, bytes |-> maxContentLength],
     [chars |-> maxContentLength, bytes |-> maxContentLength + 1],
     [chars |-> maxContentLength + 1, bytes |-> maxContentLength + 1]}

NextValidate ==
    \/ \E p \in Procs, parent \in DOMAIN comments \cup {NoParent},
          content \in Contents :
          Handle(p, Tenant, parent, content) /\ UNCHANGED otherVars
    \/ \E p \in Procs : TreeSteps(p)

SpecValidate == InitParent /\ [][NextValidate]_vars

(***************************************************************************)
(* SpecTenant: the callers of one tenant run every operation on the        *)
(* comments of their own and of another tenant.                            *)
(***************************************************************************)
TenantKeys ==
    {LockKey(LikeResource(c, LossUser)) : c \in 1..NumProcs}
        \cup {LockKey(ReplyResource(c)) : c \in 1..NumProcs}

InitTenant ==
    /\ redis = [n \in Nodes |-> [k \in TenantKeys |-> Nil]]
    /\ lockc = [p \in Procs |-> IdleCall]
    /\ comments = <<CommentRow(Tenant, NoParent, 0, <<>>),
                    [CommentRow(OtherTenant, NoParent, 0, <<>>)
                        EXCEPT !.like_count = 1]>>
    /\ likes = {[id |-> 1, tenant |-> OtherTenant, comment |-> 2,
                 user |-> LossUser, reaction |-> "LIKE",
                 xmin |-> 0, xmax |-> 0]}
    /\ tx = [p \in Procs |-> NoTx]
    /\ svc = [p \in Procs |-> IdleSvc]
    /\ NoOthers

NextTenant ==
    \/ \E p \in Procs, c \in 1..NumProcs :
          \/ LikeComment(p, Tenant, c, LossUser) /\ UNCHANGED otherVars
          \/ add_like(p, Tenant, c, LossUser, "LIKE") /\ UNCHANGED otherVars
          \/ remove_like(p, Tenant, c, LossUser) /\ UNCHANGED otherVars
          \/ CreateComment(p, Tenant, c) /\ UNCHANGED otherVars
          \/ DeleteComment(p, Tenant, c, TRUE) /\ UNCHANGED otherVars
          \/ soft_delete_comment_tree(p, c) /\ UNCHANGED otherVars
    \/ \E p \in Procs :
          \/ LikeBegin(p) /\ UNCHANGED otherVars
          \/ LikeCheck(p) /\ UNCHANGED otherVars
          \/ LikeInsert(p) /\ UNCHANGED otherVars
          \/ LikeUpdate(p) /\ UNCHANGED otherVars
          \/ LikeCommit(p) /\ UNCHANGED otherVars
          \/ LikeRollback(p) /\ UNCHANGED otherVars
          \/ LikeRelease(p) /\ UNCHANGED otherVars
          \/ AddLikeUpdate(p) /\ UNCHANGED otherVars
          \/ ReadLikeCount(p) /\ UNCHANGED otherVars
          \/ AddLikeInsert(p) /\ UNCHANGED otherVars
          \/ UpdateLikeCount(p) /\ UNCHANGED otherVars
          \/ SqlCommit(p) /\ UNCHANGED otherVars
          \/ SqlAbort(p) /\ UNCHANGED otherVars
          \/ DeleteMark(p) /\ UNCHANGED otherVars
          \/ DeleteCommit(p) /\ UNCHANGED otherVars
          \/ DeleteRollback(p) /\ UNCHANGED otherVars
          \/ TreeSteps(p)

SpecTenant == InitTenant /\ [][NextTenant]_vars

(***************************************************************************)
(* SpecCount: the counters of one comment under add_like, remove_like, the *)
(* two counter functions and replies.                                      *)
(***************************************************************************)
CountKeys == {LockKey(ReplyResource(c)) : c \in 1..(MaxOps + 1)}

InitCount ==
    /\ redis = [n \in Nodes |-> [k \in CountKeys |-> Nil]]
    /\ lockc = [p \in Procs |-> IdleCall]
    /\ comments = <<CommentRow(Tenant, NoParent, 0, <<>>)>>
    /\ likes = {}
    /\ tx = [p \in Procs |-> NoTx]
    /\ svc = [p \in Procs |-> IdleSvc]
    /\ NoOthers

NextCount ==
    \/ \E p \in Procs :
          \/ \E u \in Users : add_like(p, Tenant, RacedComment, u, "LIKE")
                /\ UNCHANGED otherVars
          \/ \E u \in Users : remove_like(p, Tenant, RacedComment, u)
                /\ UNCHANGED otherVars
          \/ increment_comment_likes(p, RacedComment) /\ UNCHANGED otherVars
          \/ decrement_comment_likes(p, RacedComment) /\ UNCHANGED otherVars
          \/ CreateComment(p, Tenant, RacedComment) /\ UNCHANGED otherVars
          \/ AddLikeUpdate(p) /\ UNCHANGED otherVars
          \/ ReadLikeCount(p) /\ UNCHANGED otherVars
          \/ AddLikeInsert(p) /\ UNCHANGED otherVars
          \/ UpdateLikeCount(p) /\ UNCHANGED otherVars
          \/ SqlCommit(p) /\ UNCHANGED otherVars
          \/ SqlAbort(p) /\ UNCHANGED otherVars
          \/ TreeSteps(p)

SpecCount == InitCount /\ [][NextCount]_vars

(***************************************************************************)
(* SpecPaginate: callers paginate with small, invalid and extreme          *)
(* arguments.                                                              *)
(***************************************************************************)
Pages == {GoInt(0), GoInt(1), GoInt(2), MaxInt, MinInt}
Limits == {GoInt(-1), GoInt(0), GoInt(1), GoInt(20), GoInt(101), MaxInt}

InitPaginate ==
    /\ redis = [n \in Nodes |-> <<>>]
    /\ lockc = [p \in Procs |-> IdleCall]
    /\ comments = <<>>
    /\ likes = {}
    /\ tx = [p \in Procs |-> NoTx]
    /\ svc = [p \in Procs |-> IdleSvc]
    /\ NoOthers

NextPaginate ==
    \E p \in Procs, page \in Pages, limit \in Limits : CallPaginate(p, page, limit)

SpecPaginate == InitPaginate /\ [][NextPaginate]_vars

(***************************************************************************)
(* SpecQuorum: callers contending for one resource while commands to any   *)
(* node may fail; the nodes keep their keys.                               *)
(***************************************************************************)
Network == {"ok", "down", "timeout"}

NextQuorum ==
    \/ \E p \in Procs, r \in LockResources : AcquireLock(p, r)
          /\ UNCHANGED <<dbVars, svc, otherVars>>
    \/ \E p \in Procs, net \in Network : AcquireOnNodeVia(p, net)
          /\ UNCHANGED <<dbVars, svc, otherVars>>
    \/ \E p \in Procs, net \in Network : ReleaseOnNodeVia(p, net)
          /\ UNCHANGED <<dbVars, svc, otherVars>>
    \/ \E p \in Procs : ReleaseLock(p)
          /\ UNCHANGED <<dbVars, svc, otherVars>>
    \/ \E p \in Procs : AcquireFailed(p)
          /\ UNCHANGED <<dbVars, svc, otherVars>>

SpecQuorum == InitLock /\ [][NextQuorum]_vars

(***************************************************************************)
(* SpecLockFair: SpecLock with callers that go on: a command to a node     *)
(* returns and the loops of tryAcquire and ReleaseLock take their next     *)
(* iteration.  A holder need not ever release.                             *)
(***************************************************************************)
SpecLockFair ==
    /\ InitLock /\ [][NextLock]_vars
    /\ \A p \in Procs :
          /\ WF_vars(AcquireOnNode(p) /\ UNCHANGED <<dbVars, svc, otherVars>>)
          /\ WF_vars(ReleaseOnNode(p) /\ UNCHANGED <<dbVars, svc, otherVars>>)

(***************************************************************************)
(* SpecExtend: holders extend their locks while keys expire and the other  *)
(* caller takes the resource.                                              *)
(***************************************************************************)
NextExtend ==
    \/ \E p \in Procs, r \in LockResources :
          /\ lockc[p].calls < MaxCalls
          /\ AcquireLockCall(p, r)
          /\ UNCHANGED <<dbVars, svc, otherVars>>
    \/ \E p \in Procs : AcquireFailed(p)
          /\ UNCHANGED <<dbVars, svc, otherVars>>
    \/ \E p \in Procs : ExtendLock(p) /\ UNCHANGED <<dbVars, otherVars>>
    \/ \E p \in Procs : ExtendOnNode(p) /\ UNCHANGED <<dbVars, otherVars>>
    \/ \E p \in Procs :
          /\ svc[p].pc # "extend"
          /\ ReleaseLockCall(p)
          /\ UNCHANGED <<dbVars, svc, otherVars>>
    \/ \E n \in Nodes, k \in LockSpecKeys : Expire(n, k)
          /\ UNCHANGED <<dbVars, svc, otherVars>>

SpecExtend == InitLock /\ [][NextExtend]_vars

(***************************************************************************)
(* SpecGiveBack: callers react and reply to one comment; no key expires,   *)
(* and a call that has started goes on to its return.                      *)
(***************************************************************************)
GiveBackKeys ==
    {LockKey(LikeResource(RacedComment, u)) : u \in Users}
        \cup {LockKey(ReplyResource(RacedComment))}

InitGiveBack ==
    /\ redis = [n \in Nodes |-> [k \in GiveBackKeys |-> Nil]]
    /\ lockc = [p \in Procs |-> IdleCall]
    /\ comments = <<CommentRow(Tenant, NoParent, 0, <<>>)>>
    /\ likes = {}
    /\ tx = [p \in Procs |-> NoTx]
    /\ svc = [p \in Procs |-> IdleSvc]
    /\ NoOthers

\* The steps of the call caller p is in.
GiveBackSteps(p) ==
    \/ LikeBegin(p) /\ UNCHANGED otherVars
    \/ LikeCheck(p) /\ UNCHANGED otherVars
    \/ LikeInsert(p) /\ UNCHANGED otherVars
    \/ LikeUpdate(p) /\ UNCHANGED otherVars
    \/ LikeCommit(p) /\ UNCHANGED otherVars
    \/ LikeRollback(p) /\ UNCHANGED otherVars
    \/ LikeRelease(p) /\ UNCHANGED otherVars
    \/ TreeSteps(p)

NextGiveBack ==
    \E p \in Procs :
        \/ \E u \in Users : LikeComment(p, Tenant, RacedComment, u)
              /\ UNCHANGED otherVars
        \/ CreateComment(p, Tenant, RacedComment) /\ UNCHANGED otherVars
        \/ GiveBackSteps(p)

SpecGiveBack ==
    /\ InitGiveBack /\ [][NextGiveBack]_vars
    /\ \A p \in Procs : WF_vars(GiveBackSteps(p))

(***************************************************************************)
(* Lock claims                                                             *)
(***************************************************************************)
\* p's AcquireLock returned a lock on resource r, p has not called
\* ReleaseLock, and no key of that lock has run out of TTL.
HoldsUnexpired(p, r) ==
    /\ lockc[p].pc = "held"
    /\ lockc[p].resource = r
    /\ ~lockc[p].lapsed

\* p's first tryAcquire of its first call came back false.
FirstAttemptLost(p) ==
    /\ lockc[p].calls = 1
    /\ lockc[p].pc \in {"unlock", "timeout"} \/ lockc[p].i > 0

\* p and q are the only callers so far, each in or after its first call, and
\* no key of either has expired.
OnlyContenders(p, q) ==
    /\ p # q
    /\ lockc[p].calls = 1 /\ lockc[q].calls = 1
    /\ ~lockc[p].lapsed /\ ~lockc[q].lapsed
    /\ \A o \in Procs \ {p, q} : lockc[o].calls = 0

NodesHolding(value, resource) ==
    {n \in Nodes : redis[n][LockKey(resource)] = value}

\* C9: two callers never hold an unexpired lock on the same resource at the
\* same time (a second AcquireLock on a held resource returns a lock only
\* after the holder called ReleaseLock or the holder's keys expired), and of
\* two callers contending for a resource not both lose their first attempt.
C9_MutualExclusion ==
    \A p, q \in Procs :
        /\ \A r \in LockResources :
              (HoldsUnexpired(p, r) /\ HoldsUnexpired(q, r)) => p = q
        /\ (OnlyContenders(p, q) /\ lockc[p].resource = lockc[q].resource)
              => ~(FirstAttemptLost(p) /\ FirstAttemptLost(q))

\* Both callers were handed the lock, the first one's keys have expired.
C9_Witness ==
    \E p, q \in Procs : \E r \in LockResources :
        /\ p # q
        /\ lockc[p].pc = "held" /\ lockc[p].resource = r /\ lockc[p].lapsed
        /\ HoldsUnexpired(q, r)

\* C10: ReleaseLock deletes a key only where it holds the releasing lock's
\* value: whatever other callers release, a holder whose lock has not expired
\* keeps its value on every node where its SetNX succeeded.
C10_ReleaseGuardedByToken ==
    \A q \in Procs :
        (lockc[q].pc = "held" /\ ~lockc[q].lapsed)
            => Cardinality(NodesHolding(lockc[q].value, lockc[q].resource))
                   = lockc[q].acquired

\* An expired holder has run its release script on every node and met the
\* new holder's value there; the new holder still has its keys.
C10_Witness ==
    \E p, q \in Procs :
        /\ p # q
        /\ lockc[p].pc = "idle" /\ lockc[p].lapsed /\ lockc[p].spared
        /\ lockc[p].acquired >= quorum
        /\ lockc[q].pc = "held" /\ ~lockc[q].lapsed
        /\ lockc[q].resource = lockc[p].resource
        /\ NodesHolding(lockc[q].value, lockc[q].resource) = Nodes

(***************************************************************************)
(* Reaction claims                                                         *)
(***************************************************************************)
\* No reaction call is in flight on comment c.
Quiescent(c) ==
    \A p \in Procs : svc[p].pc \in {"idle", "done"} \/ svc[p].c # c

CommittedLikes == {r \in likes : r.xmin = 0}

ReactionRows(c) == {r \in CommittedLikes : r.comment = c}

\* C1: whenever no reaction call is in flight on a comment, its like_count
\* equals the number of rows of likes for that comment.
C1_CounterConsistency ==
    \A c \in DOMAIN comments :
        Quiescent(c) => comments[c].like_count = Cardinality(ReactionRows(c))

\* A quiescent comment that kept one reaction after another was removed.
C1_Witness ==
    \E c \in DOMAIN comments : \E p \in Procs :
        /\ Quiescent(c)
        /\ comments[c].like_count = 1
        /\ svc[p].op = "remove_like" /\ svc[p].pc = "done" /\ svc[p].found
        /\ svc[p].c = c

\* C2: when N callers have each added the reaction of a different user to a
\* comment that had none, all N calls succeeded, like_count is N and the
\* comment has N reaction rows.
C2_NoLostUpdates ==
    (\A p \in Procs : svc[p].pc = "done")
        => /\ \A p \in Procs : svc[p].err = ""
           /\ comments[RacedComment].like_count = NumProcs
           /\ Cardinality(ReactionRows(RacedComment)) = NumProcs

\* C3: there is never more than one reaction row per
\* (tenant_id, comment_id, user_id).
C3_ReactionUniqueness ==
    \A r1, r2 \in CommittedLikes :
        (r1.tenant = r2.tenant /\ r1.comment = r2.comment /\ r1.user = r2.user)
            => r1 = r2

\* Two adds of the same user ran together and the second insert was refused.
C3_Witness ==
    \E p \in Procs :
        /\ svc[p].pc = "done" /\ svc[p].err = "unique_likes_user_comment"
        /\ ~svc[p].found

\* C4: an add by a user who already has a reaction row on the comment
\* succeeds and is not reported as an error.
C4_AddExistingSucceeds ==
    \A p \in Procs :
        (svc[p].op \in {"LikeComment", "add_like"} /\ svc[p].pc = "done"
            /\ svc[p].found)
            => svc[p].err = ""

\* A remove_like that found no row to delete is about to return.
UnlikeOfNothing(p) ==
    /\ svc[p].op = "remove_like" /\ ~svc[p].found
    /\ svc[p].pc = "commit" /\ svc'[p].pc = "done"

\* C5: a remove_like for a reaction that is not there (the second of two in
\* a row) changes neither like_count nor the rows and returns the counter
\* with success = false instead of raising.
C5_IdempotentUnlike ==
    [][\A p \in Procs :
          /\ UnlikeOfNothing(p)
                => /\ comments' = comments
                   /\ CommittedLikes' = CommittedLikes
                   /\ svc'[p].err = "" /\ ~svc'[p].ok
                   /\ svc'[p].ret >= 0
          /\ (svc[p].op = "remove_like" /\ svc[p].pc = "read"
                /\ svc'[p].pc = "commit")
                => svc'[p].ret = comments[svc[p].c].like_count]_vars

\* One remove_like deleted the user's reaction, another found none.
C5_Witness ==
    \E p, q \in Procs :
        /\ p # q
        /\ svc[p].op = "remove_like" /\ svc[q].op = "remove_like"
        /\ svc[p].pc = "done" /\ svc[q].pc = "done"
        /\ svc[p].c = svc[q].c /\ svc[p].u = svc[q].u
        /\ svc[q].found /\ svc[q].ok
        /\ ~svc[p].found /\ ~svc[p].ok /\ svc[p].err = ""
        /\ svc[p].ret = 0 /\ likes = {}

(***************************************************************************)
(* Tree claims                                                             *)
(***************************************************************************)
Replies == {c \in DOMAIN comments : comments[c].parent # NoParent}

C7_DepthCap ==
    \A c \in DOMAIN comments : comments[c].depth <= max_nesting_depth

RECURSIVE Ancestors(_)
Ancestors(c) ==
    IF c \notin DOMAIN comments \/ comments[c].parent = NoParent THEN {}
    ELSE {comments[c].parent} \cup Ancestors(comments[c].parent)

\* C8: no Deleted comment has a descendant that is not Deleted.
C8_SubtreeDeleted ==
    \A c \in DOMAIN comments : \A a \in Ancestors(c) :
        comments[a].deleted => comments[c].deleted

(***************************************************************************)
(* Claims on the use of the lock by the services                           *)
(***************************************************************************)
\* Caller p is between BeginTx and Commit/Rollback of a call that took the
\* lock on a resource key.
InCriticalSection(p) ==
    /\ svc[p].op \in {"LikeComment", "CreateComment"}
    /\ tx[p].open
    /\ lockc[p].pc = "held"

\* C11: two calls that locked the same resource key are never both between
\* the begin and the end of their transactions.
C11_StrictSerialization ==
    \A p, q \in Procs :
        (p # q /\ InCriticalSection(p) /\ InCriticalSection(q))
            => lockc[p].resource # lockc[q].resource

CalledAt(i, clock) == i <= Len(rate.log) => rate.log[i].clock = clock

\* The run so far is the saturation scenario: capacity + 1 calls at one
\* moment, then calls 1/refillRate seconds later.
SaturationRun ==
    /\ rate.log # <<>>
    /\ \A i \in 1..(rate.capacity + 1) : CalledAt(i, rate.log[1].clock)
    /\ \A i \in (rate.capacity + 2)..(rate.capacity + 3) :
          CalledAt(i, rate.log[1].clock + Resolution \div rate.refillRate)

\* C13: from a full bucket, the first `capacity` calls made at one moment are
\* allowed, the next is denied with a retryAfter within a second of
\* 1/refillRate, and 1/refillRate seconds later one call is allowed and the
\* one after it is denied.
C13_Saturation ==
    SaturationRun =>
        \A i \in 1..Len(rate.log) :
            LET e == rate.log[i] IN
            /\ i <= rate.capacity => e.allowed
            /\ i = rate.capacity + 1 => ~e.allowed /\ e.retryAfter \in {0, 1}
            /\ i = rate.capacity + 2 => e.allowed
            /\ i = rate.capacity + 3 => ~e.allowed

\* The tokens of the bucket once refilled for the elapsed time, as the call
\* made now finds them: capacity for a tenant with no bucket.
Refilled ==
    IF rate.bucket = Nil THEN rate.capacity
    ELSE Min(rate.capacity,
             rate.bucket.tokens
                + (Unix(rate.clock) - rate.bucket.last_refill) * rate.refillRate)

\* This step is one AllowRequest call; Answer is what it returned.
AllowStep == Len(rate'.log) = Len(rate.log) + 1
Answer == rate'.log[Len(rate'.log)]

\* C31: under calls with non-decreasing timestamps the stored tokens of a
\* bucket stay within 0..capacity, and a call is allowed only if the
\* refilled tokens are at least the cost (1).
C31_BucketBounds ==
    /\ [](rate.bucket # Nil => rate.bucket.tokens \in 0..rate.capacity)
    /\ [][AllowStep /\ Answer.allowed => Refilled >= 1]_vars

\* A call was denied on an empty bucket, and a later one allowed on the
\* refilled bucket.
C31_Witness ==
    \E i \in 1..Len(rate.log), j \in 1..Len(rate.log) :
        /\ i < j /\ rate.log[i].clock < rate.log[j].clock
        /\ ~rate.log[i].allowed /\ rate.log[i].remaining = 0
        /\ rate.log[j].allowed

Ceil(a, b) == (a + b - 1) \div b

\* C32: a denied call stores the refilled tokens with last_refill = now,
\* takes nothing, and returns retryAfter = ceil((cost - tokens) / refillRate).
C32_DeniedAllow ==
    [][AllowStep /\ Refilled < 1 =>
        /\ ~Answer.allowed
        /\ rate'.bucket = [tokens |-> Refilled, last_refill |-> Unix(rate.clock)]
        /\ Answer.retryAfter = Ceil(1 - Refilled, rate.refillRate)]_vars

\* The part of C32 on what a denied call stores.
DeniedStoresRefilled ==
    [][AllowStep /\ Refilled < 1 =>
        /\ ~Answer.allowed
        /\ rate'.bucket = [tokens |-> Refilled, last_refill |-> Unix(rate.clock)]]_vars

\* Calls i..j of the log that were allowed.
AdmittedIn(i, j) == Cardinality({k \in i..j : rate.log[k].allowed})

\* What every run of whole calls, one after the other, shows: the stored
\* tokens are within 0..capacity, and a call is denied only when the bucket
\* held less than one token.
SerialOutcome ==
    /\ [](rate.bucket # Nil => rate.bucket.tokens \in 0..rate.capacity)
    /\ [][AllowStep /\ ~Answer.allowed /\ rate.bucket # Nil
            => rate.bucket.tokens < 1]_vars

\* The calls admitted in an interval of t seconds are at most
\* capacity + t * refillRate (times in ticks of the clock).
AdmissionBound ==
    \A i \in 1..Len(rate.log), j \in 1..Len(rate.log) :
        i <= j =>
            AdmittedIn(i, j) * Resolution
                <= rate.capacity * Resolution
                    + (rate.log[j].clock - rate.log[i].clock) * rate.refillRate

\* C33: concurrent AllowRequest calls on one bucket end as the same calls
\* run one at a time would, and the calls admitted in an interval of length
\* t are at most capacity + t * refillRate.
C33_AtomicAllow == SerialOutcome /\ []AdmissionBound

\* The call before this one, and the time since it, in ticks.
Previous == rate.log[Len(rate.log)]
Idle == rate.clock - Previous.clock
IdleTTL == BucketTTL * Resolution

ParentMissing(p) ==
    LET par == svc[p].parent IN
    \/ par \notin DOMAIN comments
    \/ comments[par].tenant # svc[p].t
    \/ comments[par].deleted

\* CreateComment reads its parent and finds none it can reply to.
ReadsMissingParent(p) ==
    /\ svc[p].op = "CreateComment" /\ svc[p].pc = "parent"
    /\ svc'[p].pc # "parent"
    /\ ParentMissing(p) /\ ~SerializationFailure(p, svc[p].parent)

Children(c) == {x \in DOMAIN comments : comments[x].parent = c}

\* C14: a CreateComment whose parent is absent, of another tenant or
\* soft-deleted gets ErrParentNotFound and goes to its rollback; a call that
\* failed has left no comment row, and every reply_count is still the number
\* of replies stored.
C14_ParentNotFound ==
    [][/\ \A p \in Procs :
             ReadsMissingParent(p)
                 => /\ svc'[p].err = "ErrParentNotFound"
                    /\ svc'[p].pc = "rollback"
                    /\ tx'[p].cw = <<>>
       /\ \A p \in Procs :
             (svc'[p].op = "CreateComment" /\ svc'[p].err # "")
                 => svc'[p].c \notin DOMAIN comments'
       /\ \A c \in DOMAIN comments' :
             comments'[c].reply_count = Cardinality(Children(c)')]_vars

\* Replies to an absent parent, to another tenant's comment and to a
\* soft-deleted comment have failed, and a reply to an active parent is in.
C14_Witness ==
    /\ \E p \in Procs :
          /\ svc[p].op = "CreateComment" /\ svc[p].pc = "done"
          /\ svc[p].err = "ErrParentNotFound"
          /\ svc[p].parent \in DOMAIN comments
          /\ comments[svc[p].parent].deleted
    /\ \E c \in DOMAIN comments : comments[c].parent = 1

(***************************************************************************)
(* Claims on deletion                                                      *)
(***************************************************************************)
\* What another operation can see of the three tables: the committed rows.
SeenComments == {c \in DOMAIN comments : Stored(c)}

SeenLikes ==
    {[id |-> r.id, comment |-> r.comment, user |-> r.user,
      reaction |-> r.reaction] : r \in CommittedLikes}

SeenEdits == {[id |-> e.id, comment |-> e.comment] : e \in edits}

\* p takes a step of a hard delete.
HardDeleteStep(p) ==
    /\ svc'[p] # svc[p]
    /\ svc'[p].op \in {"HardDeleteComment", "hard_delete_comment"}

\* The step removes the comment c with every reply below it and every
\* reaction and edit of those, and nothing else.
RemovesAll(c) ==
    LET ds == SeenComments \ SeenComments' IN
    /\ c \in ds
    /\ SeenComments' = SeenComments \ ds
    /\ \A x \in SeenComments' : comments'[x].parent \notin ds
    /\ SeenLikes' = {r \in SeenLikes : r.comment \notin ds}
    /\ SeenEdits' = {e \in SeenEdits : e.comment \notin ds}

\* C15: every step of a hard delete either leaves the committed rows of
\* comments, likes and comment_edits as they are, or is the one step of a
\* successful call that removes the comment, its replies and all their
\* reactions and edits together; a call that returns an error has removed
\* nothing, and no committed reaction or edit is ever left without its comment.
C15_HardDeleteAllOrNothing ==
    [][/\ \A p \in Procs :
             HardDeleteStep(p)
                 => \/ /\ SeenComments' = SeenComments
                       /\ SeenLikes' = SeenLikes
                       /\ SeenEdits' = SeenEdits
                    \/ /\ svc'[p].ok /\ svc'[p].err = ""
                       /\ RemovesAll(svc'[p].c)
       /\ \A r \in SeenLikes' : r.comment \in SeenComments'
       /\ \A e \in SeenEdits' : e.comment \in SeenComments']_vars

\* One hard delete failed after it had deleted the reactions, another
\* removed a comment that had reactions, an edit and a reply.
C15_Witness ==
    /\ \E p \in Procs :
          /\ svc[p].op = "HardDeleteComment" /\ svc[p].pc = "done"
          /\ svc[p].err = "store error"
    /\ \E p \in Procs :
          /\ svc[p].op = "HardDeleteComment" /\ svc[p].pc = "done"
          /\ svc[p].ok /\ svc[p].c = 1
          /\ SeenComments = {} /\ SeenLikes = {} /\ SeenEdits = {}

\* p takes a step of a soft delete of comment c.
SoftDeleteStep(p, c) ==
    /\ svc'[p] # svc[p]
    /\ svc'[p].op \in {"DeleteComment", "soft_delete_comment_tree"}
    /\ svc'[p].c = c

\* A comment that is Deleted stays Deleted until it is Purged.
NoUndelete ==
    \A c \in DOMAIN comments :
        (Stored(c) /\ comments[c].deleted)
            => \/ comments'[c].status = Purged
               \/ comments'[c].deleted /\ comments'[c].status = "DELETED"

\* A comment that is Purged has no row again.
PurgedForGood ==
    \A c \in DOMAIN comments :
        ~Stored(c) => c \in DOMAIN comments' /\ comments'[c].status = Purged

\* A soft delete of a comment that is Deleted leaves every row as it is.
DeleteOfDeleted ==
    \A p \in Procs : \A c \in DOMAIN comments :
        (SoftDeleteStep(p, c) /\ Stored(c) /\ comments[c].deleted)
            => comments' = comments

\* C16: a Deleted comment never becomes Active again, a soft delete of a
\* comment that is already Deleted changes no row, and a Purged comment has
\* no row ever after.
C16_Lifecycle == [][NoUndelete /\ DeleteOfDeleted /\ PurgedForGood]_vars

RateCheckFailed(p) ==
    /\ svc'[p] # svc[p]
    /\ svc'[p].op = "RateLimit"
    /\ svc'[p].err = "rate limit check failed"

\* p's AcquireLock ran with fewer nodes in reach than a quorum.
LockUnreachable(p) ==
    /\ lockc'[p] # lockc[p]
    /\ lockc'[p].pc \in {"held", "timeout"}
    /\ Cardinality(lockc'[p].reached) < quorum

\* C18: a request whose rate check could not reach Redis is not passed on
\* to its handler, and a call whose AcquireLock could not reach a quorum
\* of nodes returns an error with no lock and no transaction.
C18_FailClosed ==
    [][\A p \in Procs :
          /\ RateCheckFailed(p) => ~svc'[p].ok
          /\ LockUnreachable(p)
                => /\ lockc'[p].pc = "timeout"
                   /\ svc'[p].pc = "done" /\ svc'[p].err # ""
                   /\ ~tx'[p].open]_vars

(***************************************************************************)
(* Claims on the read cache                                                *)
(***************************************************************************)
\* e is a cached tree view of tenant t.
IsTreeView(e, t) ==
    e.key \in {TreeKey(t, page, limit) :
                  page \in 1..MaxPage, limit \in 1..MaxLimit}

\* The store already held what p's call committed when the entry was read.
ReadAfterCommit(e, p) ==
    IF svc[p].op = "LikeComment" THEN <<svc[p].c, svc[p].u>> \in e.seen.likes
    ELSE svc[p].c \in e.seen.comments

\* C19: once LikeComment or CreateComment has committed and returned, the
\* cache holds no tree view of the tenant's entity that was read before
\* that commit, under any page and limit.
C19_InvalidationAfterCommit ==
    \A p \in Procs :
        (/\ svc[p].op \in {"LikeComment", "CreateComment"}
         /\ svc[p].pc = "done" /\ svc[p].ok)
            => \A e \in cache : IsTreeView(e, svc[p].t) => ReadAfterCommit(e, p)

(***************************************************************************)
(* Claims on tenants                                                       *)
(***************************************************************************)
\* The committed rows of tenant t: its comments with their counters, and
\* its reactions.
RowsOf(t) ==
    [comments |-> {<<c, comments[c]>> :
                      c \in {x \in DOMAIN comments : comments[x].tenant = t}},
     likes |-> {r \in CommittedLikes : r.tenant = t}]

\* C20: no step of an operation called with tenant id Tenant changes a
\* comment row, a counter or a reaction of another tenant.
C20_TenantScoping == [][RowsOf(OtherTenant)' = RowsOf(OtherTenant)]_vars

(***************************************************************************)
(* Claims on the counters                                                  *)
(***************************************************************************)
\* The counters of every row of comments, committed or written by an open
\* transaction.
CounterRows ==
    {comments[c] : c \in DOMAIN comments}
        \cup UNION {{tx[p].cw[c] : c \in DOMAIN tx[p].cw} : p \in Procs}

\* A remove_like that deleted a row commits.
RemoveCommits(p) ==
    /\ svc[p].op = "remove_like" /\ svc[p].found
    /\ svc[p].pc = "commit" /\ svc'[p].pc = "done"

\* C21: like_count and reply_count are never negative, and a remove_like
\* that deleted a row lowers like_count by exactly 1, or leaves it at 0 when
\* it was 0.
C21_NonNegativeCounters ==
    /\ [](\A r \in CounterRows : r.like_count >= 0 /\ r.reply_count >= 0)
    /\ [][\A p \in Procs :
            RemoveCommits(p) =>
                LET old == comments[svc[p].c].like_count IN
                /\ comments'[svc[p].c].like_count =
                        IF old = 0 THEN 0 ELSE old - 1
                /\ svc[p].ret = comments'[svc[p].c].like_count]_vars

\* A remove_like has deleted a reaction of a comment whose counter was
\* already 0 and has left the counter at 0.
C21_Witness ==
    \E p \in Procs :
        /\ svc[p].op = "remove_like" /\ svc[p].found /\ svc[p].pc = "commit"
        /\ comments[svc[p].c].like_count = 0
        /\ ReadComment(p, svc[p].c).like_count = 0
        /\ svc[p].c \in tx[p].locks
        /\ \E r \in likes : r.comment = svc[p].c /\ r.xmax = p

(***************************************************************************)
(* Claims on pagination                                                    *)
(***************************************************************************)
\* Bytes enough for the exact product of an int and a limit.
WideBytes == IntBytes + 2

\* The int a as a wider word of the same value.
Widen(a) ==
    a \o [i \in 1..(WideBytes - Len(a)) |-> IF Negative(a) THEN Byte - 1 ELSE 0]

\* C22: Paginate(page, limit) returns offset = (p - 1) * l and limit = l,
\* where p is page, or 1 when page < 1, and l is limit, or 20 when
\* limit < 1, or 100 when limit > 100; the returned limit is in 1..100 and
\* the offset is not negative.
C22_Paginate ==
    \A q \in Procs :
        svc[q].op = "Paginate" =>
            LET p == IF Less(svc[q].page, GoInt(1)) THEN GoInt(1) ELSE svc[q].page
                l == IF Less(svc[q].limit, GoInt(1)) THEN GoInt(20)
                     ELSE IF Less(GoInt(100), svc[q].limit) THEN GoInt(100)
                     ELSE svc[q].limit
                out == svc[q].out
            IN  /\ Widen(out.offset) = Times(Widen(Minus(p, GoInt(1))), Widen(l))
                /\ out.actualLimit = l
                /\ \E n \in 1..100 : out.actualLimit = GoInt(n)
                /\ ~Negative(out.offset)

(***************************************************************************)
(* Claims on the reply counter                                             *)
(***************************************************************************)
\* A CreateComment of caller p that replied to parent has returned nil.
Replied(p, parent) ==
    /\ svc[p].op = "CreateComment" /\ svc[p].pc = "done"
    /\ svc[p].ok /\ svc[p].parent = parent

\* C23: however the replies to a parent interleave, the committed
\* reply_count of the parent equals the number of its child rows: every
\* successful reply added one row and one to the counter, and no state shows
\* the one without the other.
C23_ReplyCounter ==
    \A c \in DOMAIN comments :
        /\ comments[c].reply_count = Cardinality(Children(c))
        /\ \A p \in Procs : Replied(p, c) => svc[p].c \in Children(c)

\* Every caller has replied to the same parent with success.
C23_Witness ==
    \E c \in DOMAIN comments :
        /\ \A p \in Procs : Replied(p, c)
        /\ comments[c].reply_count = NumProcs
        /\ \A p, q \in Procs : p # q => svc[p].c # svc[q].c

(***************************************************************************)
(* Claims on root comments                                                 *)
(***************************************************************************)
\* The rows of comments, committed or inserted by an open transaction.
TreeRows ==
    {comments[c] : c \in {x \in DOMAIN comments : Stored(x)}}
        \cup UNION {{tx[p].cw[c] : c \in DOMAIN tx[p].cw} : p \in Procs}

\* Caller p takes a step of a CreateComment without ParentID.
RootStep(p) ==
    /\ svc'[p] # svc[p]
    /\ svc'[p].op = "CreateComment" /\ svc'[p].parent = NoParent

\* C24: a row has depth 0 exactly if it has no parent; and a CreateComment
\* without ParentID touches no lock, writes no row but its own, which has
\* depth 0 and the empty path, and so changes no counter of another comment.
C24_RootDepth ==
    /\ [](\A r \in TreeRows : r.depth = 0 <=> r.parent = NoParent)
    /\ [][\A p \in Procs :
            RootStep(p) =>
                /\ redis' = redis /\ lockc' = lockc
                /\ tx'[p].locks = {}
                /\ \A c \in DOMAIN comments : comments'[c] = comments[c]
                /\ \A c \in DOMAIN comments' \ DOMAIN comments :
                        /\ c = svc[p].c
                        /\ comments'[c] = CommentRow(svc[p].t, NoParent, 0, <<>>)]_vars

\* A root comment was created while another comment had replies, and a
\* reply exists.
C24_Witness ==
    \E p \in Procs :
        /\ svc[p].op = "CreateComment" /\ svc[p].parent = NoParent
        /\ svc[p].pc = "done" /\ svc[p].ok
        /\ svc[p].c \in DOMAIN comments
        /\ comments[svc[p].c].depth = 0
        /\ \E c \in DOMAIN comments : comments[c].reply_count > 0
        /\ \E c \in DOMAIN comments : comments[c].depth > 0

(***************************************************************************)
(* Claims on what a hard delete leaves                                     *)
(***************************************************************************)
\* The hard delete that caller p made last removed its comment.
HardDeleted(p) ==
    /\ svc[p].op \in {"HardDeleteComment", "hard_delete_comment"}
    /\ svc[p].pc = "done" /\ svc[p].ok /\ svc[p].found

\* Comment c with every reply below it, removed or not.
Subtree(c) == {x \in DOMAIN comments : x = c \/ c \in Ancestors(x)}

\* C25: once a hard delete of comment c has succeeded, the committed tables
\* hold no comment of the subtree of c and no reaction and no edit of one.
C25_HardDeleteSubtree ==
    \A p \in Procs :
        HardDeleted(p) =>
            \A x \in Subtree(svc[p].c) :
                /\ ~Stored(x)
                /\ \A r \in CommittedLikes : r.comment # x
                /\ \A e \in edits : e.comment # x

\* A hard delete of a comment that had a reply, reactions and edits has
\* succeeded.
C25_Witness ==
    \E p \in Procs :
        /\ HardDeleted(p)
        /\ Cardinality(Subtree(svc[p].c)) > 1
        /\ \A x \in Subtree(svc[p].c) : ~Stored(x)

(***************************************************************************)
(* Claims on the lock with failing nodes                                   *)
(***************************************************************************)
\* C26: AcquireLock returns a lock only if SetNX stored its value on at
\* least quorum nodes, and while commands to nodes fail but no node loses a
\* key, two callers never hold a lock on the same resource at the same time.
C26_QuorumUnderFailure ==
    \A p \in Procs :
        lockc[p].pc = "held" =>
            /\ lockc[p].acquired >= quorum
            /\ Cardinality(NodesHolding(lockc[p].value, lockc[p].resource))
                    >= lockc[p].acquired
            /\ \A q \in Procs \ {p} :
                    ~(lockc[q].pc = "held" /\ lockc[q].resource = lockc[p].resource)

\* A caller holds the lock with exactly a quorum of nodes, one node having
\* stayed empty because no command reached it; the other caller has given up.
C26_Witness ==
    \E p, q \in Procs :
        /\ lockc[p].pc = "held" /\ lockc[p].acquired = quorum
        /\ \E n \in Nodes : redis[n][LockKey(lockc[p].resource)] = Nil
        /\ lockc[q].pc = "timeout" /\ lockc[q].resource = lockc[p].resource

(***************************************************************************)
(* Claims on the end of AcquireLock                                        *)
(***************************************************************************)
\* Caller p is inside AcquireLock.
Acquiring(p) == lockc[p].pc \in {"setnx", "unlock"}

\* C27: a call of AcquireLock makes at most Retries attempts and then
\* returns, with a lock that a quorum of nodes accepted or with the error
\* after the last attempt, whether or not another caller holds the resource
\* all the while.
C27_AcquireTerminates ==
    /\ [](\A p \in Procs :
            /\ lockc[p].i < Retries
            /\ lockc[p].pc = "held" => lockc[p].acquired >= quorum
            /\ lockc[p].pc = "timeout" => lockc[p].i = Retries - 1)
    /\ \A p \in Procs :
            Acquiring(p) ~> lockc[p].pc \in {"held", "timeout"}

\* A caller got the error while the other held the lock.
C27_Witness ==
    \E p, q \in Procs :
        /\ lockc[p].pc = "timeout" /\ lockc[p].i = Retries - 1
        /\ lockc[q].pc = "held" /\ ~lockc[q].lapsed
        /\ lockc[q].resource = lockc[p].resource

(***************************************************************************)
(* Claims on what a failed AcquireLock leaves                              *)
(***************************************************************************)
\* The release pass of a failed attempt of caller p runs on a node.
UnlockStep(p) == lockc[p].pc = "unlock" /\ lockc'[p] # lockc[p]

\* The step deletes the caller's value on the node if the script ran there,
\* and changes no key that holds another value.
DeletesOwnOnly(p) ==
    LET n == lockc[p].j
        k == LockKey(lockc[p].resource)
    IN  /\ \A m \in Nodes \ {n} : redis'[m] = redis[m]
        /\ redis[n][k] # lockc[p].value => redis'[n][k] = redis[n][k]
        /\ n \in lockc'[p].reached => redis'[n][k] # lockc[p].value

\* C28 as stated: the release pass of a failed attempt deletes the caller's
\* value on every node it reaches and nothing else, and once AcquireLock has
\* returned its error no node holds the caller's value.
C28_NothingLeftBehind ==
    /\ [][\A p \in Procs : UnlockStep(p) => DeletesOwnOnly(p)]_vars
    /\ [](\A p \in Procs :
            lockc[p].pc = "timeout"
                => NodesHolding(lockc[p].value, lockc[p].resource) = {})

\* C28, amended: as above, but once AcquireLock has returned its error the
\* caller's value is on no node that its last release pass reached.
C28_NothingLeftReachable ==
    /\ [][\A p \in Procs : UnlockStep(p) => DeletesOwnOnly(p)]_vars
    /\ [](\A p \in Procs :
            lockc[p].pc = "timeout"
                => NodesHolding(lockc[p].value, lockc[p].resource)
                        \cap lockc[p].reached = {})

\* AcquireLock has returned its error; its last release pass ran on every
\* node, found the holder's value on a quorum of them and left it there.
C28_Witness ==
    \E p, q \in Procs :
        /\ lockc[p].pc = "timeout" /\ lockc[p].reached = Nodes
        /\ lockc[p].spared
        /\ lockc[q].pc = "held" /\ lockc[q].resource = lockc[p].resource
        /\ Cardinality(NodesHolding(lockc[q].value, lockc[q].resource)) >= quorum

(***************************************************************************)
(* Claims on ExtendLock                                                    *)
(***************************************************************************)
\* C29: ExtendLock changes the expiry of a node's key only if the key holds
\* the value of the lock, so never that of a key of another caller, and it
\* reports success only if the lock is still owned, that is, if it has
\* extended the key on a quorum of nodes.
C29_ExtendGuarded ==
    /\ [][\A p \in Procs :
            (svc[p].op = "ExtendLock" /\ svc[p].pc = "extend"
                    /\ svc'[p] # svc[p])
                => /\ redis' = redis
                   /\ \A n \in svc'[p].extended \ svc[p].extended :
                        redis[n][LockKey(lockc[p].resource)] = lockc[p].value]_vars
    /\ [](\A p \in Procs :
            (svc[p].op = "ExtendLock" /\ svc[p].pc = "done" /\ svc[p].ok)
                => Cardinality(svc[p].extended) >= quorum)

(***************************************************************************)
(* Claims on the lock around the transaction                               *)
(***************************************************************************)
\* The call caller p is in, or made last, takes a lock.
Locking(p) ==
    \/ svc[p].op = "LikeComment"
    \/ svc[p].op = "CreateComment" /\ svc[p].parent # NoParent

\* No node holds the value of p's lock.
GivenBack(p) ==
    /\ lockc[p].pc # "held"
    /\ lockc[p].value # Nil
            => NodesHolding(lockc[p].value, lockc[p].resource) = {}

\* C30: a locking call has its transaction open only while it holds the
\* lock; it calls ReleaseLock only when the transaction has ended; when it
\* has returned, by whatever path, its lock is gone from every node; and a
\* held lock is always given back in the end, with no key expiring.
C30_LockSpansTransaction ==
    /\ [](\A p \in Procs :
            /\ (Locking(p) /\ tx[p].open) => lockc[p].pc = "held"
            /\ (Locking(p) /\ svc[p].pc = "done") => GivenBack(p))
    /\ [][\A p \in Procs :
            (lockc[p].pc = "held" /\ lockc'[p].pc # "held")
                => ~tx[p].open /\ tx' = tx]_vars
    /\ \A p \in Procs : (Locking(p) /\ lockc[p].pc = "held") ~> GivenBack(p)

\* One call has returned ErrAlreadyLiked, another a store error and a third
\* has succeeded; no key is left on any node.
C30_Witness ==
    /\ \E p \in Procs :
          /\ Locking(p) /\ svc[p].pc = "done" /\ svc[p].err # ""
          /\ lockc[p].calls > 0 /\ GivenBack(p)
    /\ \E p \in Procs :
          /\ Locking(p) /\ svc[p].pc = "done" /\ svc[p].ok
          /\ GivenBack(p)
    /\ \A n \in Nodes, k \in GiveBackKeys : redis[n][k] = Nil

(***************************************************************************)
(* Claims on the age of cached views                                       *)
(***************************************************************************)
\* p's last call was a GetCommentTree answered from the cache.
Served(p) == svc[p].op = "GetCommentTree" /\ svc[p].found

\* In this step p's GetCommentTree misses the cache.
Missed(p) ==
    /\ svc'[p].n = svc[p].n + 1
    /\ svc'[p].op = "GetCommentTree" /\ ~svc'[p].found

\* C35: a view written into the cache, also one read before a commit and
\* written after the invalidation that followed the commit, is served for
\* less than the TTL from its write on; once it is gone a call reads its
\* view from the store.
C35_BoundedStaleness ==
    /\ [](\A e \in cache : e.age < CacheTTL)
    /\ [](\A p \in Procs : Served(p) => svc[p].view.age < CacheTTL)
    /\ [][\A p \in Procs : Missed(p) =>
            /\ CacheGet(svc'[p].view.key) = {}
            /\ svc'[p].view.data = TreePage(Tenant, 1, MaxLimit)
            /\ svc'[p].view.seen = SeenNow]_vars

\* A view without comment c, written after the worker had handled c's
\* event, is served in the last minute of its life.
C35_Witness ==
    \E p \in Procs :
        /\ Served(p)
        /\ svc[p].view.age = CacheTTL - 1
        /\ \E c \in svc[p].view.late :
              /\ c \notin svc[p].view.seen.comments
              /\ c \notin {r.id : r \in svc[p].view.data}
              /\ Stored(c)

(***************************************************************************)
(* Claims on buildTree                                                     *)
(***************************************************************************)
\* How often row id is in a forest, at any level.
RECURSIVE Occurrences(_, _)
Occurrences(forest, id) ==
    IF forest = <<>> THEN 0
    ELSE (IF Head(forest).ID = id THEN 1 ELSE 0)
            + Occurrences(Head(forest).Replies, id)
            + Occurrences(Tail(forest), id)

\* Every row of the forest holds its own replies only, at every level.
RECURSIVE Nested(_, _)
Nested(forest, parent) ==
    \A i \in 1..Len(forest) :
        /\ forest[i].ParentID = parent
        /\ Nested(forest[i].Replies, forest[i].ID)

\* The row with this id and every row above it are in the list.
RECURSIVE ChainInside(_, _)
ChainInside(list, id) ==
    \E i \in 1..Len(list) :
        /\ list[i].ID = id
        /\ list[i].ParentID # NoParent => ChainInside(list, list[i].ParentID)

Built(p) == svc[p].op = "buildTree" /\ svc[p].pc = "done"

\* The forest p built holds every row with its parent chain in the list
\* exactly once, replies under their own parents, parentless rows as roots.
WellBuilt(p) ==
    LET list == svc[p].list
        out == svc[p].out
    IN  /\ \A i \in 1..Len(list) :
              ChainInside(list, list[i].ID) => Occurrences(out, list[i].ID) = 1
        /\ Nested(out, NoParent)
        /\ \A i \in 1..Len(list) :
              list[i].ParentID = NoParent
                  <=> \E k \in 1..Len(out) : out[k].ID = list[i].ID

\* C36: for a list of rows in any order the built forest holds every row
\* whose parent chain is inside the list exactly once, each reply under its
\* own parent at every level, and exactly the parentless rows as roots.
C36_TreeBuild == \A p \in Procs : Built(p) => WellBuilt(p)

\* Every reply comes before its parent in the list, as in a page ordered by
\* created_at DESC.
NewestFirst(list) ==
    \A i \in 1..Len(list), j \in 1..Len(list) :
        list[i].ParentID = list[j].ID => i < j

\* What holds of C36: the lists that have replies before their parents.
TreeBuildNewestFirst ==
    \A p \in Procs : Built(p) /\ NewestFirst(svc[p].list) => WellBuilt(p)

\* Such a list with three levels has been built.
NewestFirstBuilt ==
    \E p \in Procs :
        /\ Built(p) /\ NewestFirst(svc[p].list)
        /\ \E k \in 1..Len(svc[p].out) :
              \E r \in 1..Len(svc[p].out[k].Replies) :
                  svc[p].out[k].Replies[r].Replies # <<>>

(***************************************************************************)
(* Claims on events                                                        *)
(***************************************************************************)
\* The events of p's current call.
EventsOf(p) == {e \in bus : e.call = <<p, svc[p].n>>}

\* p's CreateComment has committed.
Created(p) == svc[p].op = "CreateComment" /\ svc[p].ok

\* C37: an event is published only for a CreateComment that has committed,
\* never for one that was rolled back; a failed publish leaves the comment
\* and its parent's reply_count in place, and the call still succeeds.
C37_EventsFollowCommits ==
    /\ [](\A e \in bus : Stored(e.CommentID))
    /\ [](\A p \in Procs :
            svc[p].op = "CreateComment" /\ ~svc[p].ok => EventsOf(p) = {})
    /\ [](\A p \in Procs :
            Created(p) /\ svc[p].pc = "done" =>
                /\ svc[p].err = ""
                /\ Stored(svc[p].c)
                /\ svc[p].parent # NoParent =>
                      comments[svc[p].parent].reply_count >= 1)
    /\ [][bus' # bus /\ (\E e \in bus' : e.sent = "failed" /\ e \notin bus)
            => comments' = comments /\ svc' = svc]_vars

\* The event of a committed reply could not be published, and a create was
\* rolled back.
C37_Witness ==
    /\ \E p \in Procs, e \in bus :
          /\ e \in EventsOf(p) /\ e.sent = "failed" /\ e.ParentID # NoParent
          /\ Created(p) /\ svc[p].pc = "done"
    /\ \E p \in Procs :
          /\ svc[p].op = "CreateComment" /\ svc[p].pc = "done" /\ ~svc[p].ok
          /\ tx[p] = NoTx

(***************************************************************************)
(* Claims on validation                                                    *)
(***************************************************************************)
\* The length of the content, in characters or in bytes, is not within
\* 1..maxContentLength.
OutOfRange(content) ==
    \/ content.chars \notin 1..maxContentLength
    \/ content.bytes \notin 1..maxContentLength

Rejected(p) ==
    /\ svc[p].op = "CreateComment" /\ svc[p].pc = "done" /\ ~svc[p].ok
    /\ svc[p].err = "ErrInvalidContentLength"

\* C38: a CreateComment whose content length is outside 1..maxContentLength
\* ends with a validation error in the step that takes it, with no lock
\* taken, no transaction begun and no row or counter changed.
C38_ValidationFirst ==
    [][\A p \in Procs, parent \in DOMAIN comments \cup {NoParent},
          content \in Contents :
          OutOfRange(content) /\ Handle(p, Tenant, parent, content) =>
              /\ Rejected(p)'
              /\ UNCHANGED <<redis, lockc, comments, likes, tx>>]_vars

\* A reply was rejected for its content while another caller was inside its
\* transaction under the lock of the same parent.
C38_Witness ==
    \E p \in Procs, q \in Procs :
        /\ Rejected(p) /\ svc[p].parent # NoParent
        /\ lockc[p].pc # "held" /\ tx[p] = NoTx
        /\ svc[q].op = "CreateComment" /\ svc[q].parent = svc[p].parent
        /\ lockc[q].pc = "held" /\ tx[q].open

(***************************************************************************)
(* Claims on replies racing with deletes                                   *)
(***************************************************************************)
\* No call is under way.
AllSettled ==
    \A q \in Procs : svc[q].pc \in {"idle", "done"} /\ tx[q] = NoTx

\* p's last call was a reply that committed.
RepliedTo(p) ==
    /\ svc[p].op = "CreateComment" /\ svc[p].pc = "done" /\ svc[p].ok
    /\ svc[p].parent # NoParent

\* C39: once a reply and the soft deletes it raced with have ended, the
\* reply is not an Active comment under a Deleted parent or ancestor: it
\* failed, or it is Deleted with the subtree.
C39_ReplyDeleteRace ==
    AllSettled =>
        \A p \in Procs :
            RepliedTo(p) /\ ~comments[svc[p].c].deleted =>
                \A a \in Ancestors(svc[p].c) : ~comments[a].deleted

\* The half of the race that the parent's row decides: a reply whose parent
\* was Deleted when the reply read it does not commit.
ReplyAfterDelete ==
    [][\A p \in Procs :
          /\ svc[p].op = "CreateComment" /\ svc[p].pc = "parent"
          /\ svc'[p].pc # "parent"
          /\ comments[svc[p].parent].deleted
          => svc'[p].pc = "rollback"
             /\ svc'[p].err \in {"ErrParentNotFound",
                                 "could not serialize access"}]_vars

(***************************************************************************)
(* Claims on reactions to deleted comments                                 *)
(***************************************************************************)
\* In this step p's INSERT INTO likes runs.
InsertStep(p) ==
    /\ svc[p].op \in {"LikeComment", "add_like"}
    /\ svc[p].pc = "insert" /\ svc'[p].pc # "insert"

\* The store holds comment c as soft-deleted.
DeletedNow(c) == c \in DOMAIN comments /\ comments[c].deleted

\* p's INSERT has been rejected by the trigger.
Refused(p) == ~svc[p].ok /\ svc[p].err = "Cannot like a deleted comment"

\* p's SERIALIZABLE transaction goes on with a snapshot older than the last
\* change of its comment: its UPDATE of the comment cannot succeed.
Stale(p) ==
    /\ svc[p].op = "LikeComment" /\ svc[p].pc \in {"update", "rollback"}
    /\ tx[p].snap /\ svc[p].c \in tx[p].stale

\* C40: an INSERT of a reaction to a comment that is soft-deleted at that
\* moment is refused and leaves likes and like_count as they are, or it is
\* made under a snapshot from before the delete, and then the transaction
\* is rolled back with its row and without a change of like_count.
C40_NoReactionOnDeleted ==
    /\ [][\A p \in Procs :
            InsertStep(p) /\ DeletedNow(svc[p].c) =>
                \/ Refused(p)' /\ likes' = likes /\ comments' = comments
                \/ Stale(p)']_vars
    /\ [][\A p \in Procs :
            Stale(p) /\ svc'[p] # svc[p] =>
                \/ Stale(p)'
                \/ /\ ~svc'[p].ok /\ tx'[p] = NoTx
                   /\ \A r \in likes' : r.xmin # p
                   /\ comments' = comments]_vars
    /\ [](\A p \in Procs : Refused(p) => svc[p].pc # "commit")

\* One caller's reaction was refused after a delete, and the other's row
\* went in under a snapshot from before that delete.
C40_Witness ==
    \E p \in Procs, q \in Procs :
        /\ Stale(p) /\ DeletedNow(svc[p].c)
        /\ \E r \in likes : r.xmin = p /\ r.comment = svc[p].c
        /\ svc[q].op = "add_like" /\ svc[q].pc = "done" /\ Refused(q)
        /\ svc[q].c = svc[p].c

====
